---- MODULE Spec2Model ----
(***************************************************************************)
(* Verification model of libembedded's IIR filter design and execution    *)
(* engine (embedded::signal): ZPK transforms, the ZPK -> SOS pairing      *)
(* recursion, polynomial assembly and the two per-sample filter forms.    *)
(*                                                                         *)
(* Numbers.  Poles and zeros are Gaussian integers (records re/im), so    *)
(* every product, sum and comparison of the design code is computed       *)
(* exactly.  A value of the filter's floating point type F is a record    *)
(* [v, nan]: nan marks the IEEE not-a-number that pow() returns for a     *)
(* negative base with a fractional exponent and that every later          *)
(* arithmetic operation propagates.  The frequency transforms divide, so  *)
(* their values are fractions [n, d] in lowest terms; d = 0 holds the     *)
(* non-finite values: 1/0 is +Inf, -1/0 is -Inf and 0/0 is NaN.            *)
(*                                                                         *)
(* Vectors (cmath::vector) are sequences; index i of the source is index  *)
(* i + 1 here.  A vector built elementwise is written [k \in .. |-> ..]    *)
(* \o <<>>, which is the same sequence, evaluated once.                    *)
(***************************************************************************)
EXTENDS Integers, Sequences, FiniteSets, TLC

VARIABLES
  pc,        \* position in the design pipeline of the specification at hand
  zpk,       \* design input: [zeros, poles, gain] (iirfilter::design::zpk_)
  mode,      \* sos_gain: "first_section" | "distribute"
  z,         \* zpk_to_sos: zeros still to be paired
  p,         \* zpk_to_sos: poles still to be paired
  gain,      \* zpk_to_sos: the gain argument handed down the recursion
  Stages,    \* zpk_to_sos: template parameter of the pending recursion level
  sos,       \* sections appended so far (the output's tail), front = index 0
  sel,       \* per section of sos: the arguments its constructor was given
  polyd,     \* poly_design: [b, a], or <<>> while none is built
  inst       \* the filter instances created so far: [kind, state, in, out],
             \* in and out being the samples an instance was given and returned
VARIABLE
  tr         \* the frequency transforms: [op, arg, in, out], the last
             \* transform applied, its parameter, the ZPK it was given and
             \* the ZPK it returned
VARIABLE
  proto      \* the Chebyshev prototype: [kind, order, ripple, rf, zpk]
VARIABLES
  vi,        \* varint: the value, the byte buffer and the results of the
             \* encode and decode calls made on it
  cb,        \* circular_buffer_adapter: the managed memory and its fields
  fn         \* embedded::function objects and the callables they hold

dvars == <<zpk, mode, z, p, gain, Stages, sos, sel>>

fvars == <<polyd, inst>>

tvars == <<tr, proto>>

uvars == <<vi, cb, fn>>

svars == <<dvars, fvars, tvars>>

vars == <<pc, dvars, fvars, tvars, uvars>>

----------------------------------------------------------------------------
(* Bounds of the model *)

MaxOrder == 3

\* samples of the impulse response compared beyond the order
ExtraSamples == 5

\* length up to which every input sequence is fed
FreeSamples == 3

\* samples fed to each of several instances of one design
InstSamples == 2

\* poles of the ZPKs given to the frequency transforms
MaxPoles == 2

\* warped cutoff frequencies 1 .. MaxFreq
MaxFreq == 2

\* sampling rates 1 .. MaxRate
MaxRate == 2

\* ripple values -MaxRipple .. MaxRipple (dB)
MaxRipple == 3

----------------------------------------------------------------------------
(* cmath::complex over exact integers *)

C(r, i) == [re |-> r, im |-> i]

CNeg(a) == C(-a.re, -a.im)

CSub(a, b) == C(a.re - b.re, a.im - b.im)

CAdd(a, b) == C(a.re + b.re, a.im + b.im)

CMul(a, b) == C(a.re * b.re - a.im * b.im, a.re * b.im + b.re * a.im)

norm(a) == a.re * a.re + a.im * a.im

is_real(a) == a.im = 0

conj(a) == C(a.re, -a.im)

abs(x) == IF x < 0 THEN -x ELSE x

----------------------------------------------------------------------------
(* The floating point type: finite values and NaN *)

F(x) == [v |-> x, nan |-> FALSE]

NaN == [v |-> 0, nan |-> TRUE]

FAdd(a, b) == IF a.nan \/ b.nan THEN NaN ELSE F(a.v + b.v)

FSub(a, b) == IF a.nan \/ b.nan THEN NaN ELSE F(a.v - b.v)

FMul(a, b) == IF a.nan \/ b.nan THEN NaN ELSE F(a.v * b.v)

\* IEEE comparison: NaN equals nothing, itself included
FEq(a, b) == ~a.nan /\ ~b.nan /\ a.v = b.v

Pow(x, n) == LET f[k \in 0..n] == IF k = 0 THEN 1 ELSE x * f[k - 1] IN f[n]

\* cmath::pow(x, 1/m) for m >= 1, as the set of results a build can give.
\* A negative base with a fractional exponent is NaN.  With exponent 1 the
\* result is x, except that the gcem implementation, selected for compilers
\* other than GCC, answers NaN for every negative base.
pow_inv(x, m) ==
  IF x < 0 THEN (IF m = 1 THEN {F(x), NaN} ELSE {NaN})
  ELSE {F(r) : r \in {r \in 0..x : Pow(r, m) = x}}

----------------------------------------------------------------------------
(* cmath::vector *)

swap_idx(a, b, i) == IF i = a THEN b ELSE IF i = b THEN a ELSE i

swap(v, a, b) == [i \in 1..Len(v) |-> v[swap_idx(a, b, i)]] \o <<>>

erase0(v) == SubSeq(v, 2, Len(v))

\* swappop without the swap: always drops the front element
swappop_noswap(v, i) == erase0(v)

swappop(v, i) == erase0(swap(v, i, 1))

\* an argmin that gives a tie to the later element
argmin_step_last(a, less, I, min_index) ==
  IF ~less[<<a[min_index], a[I]>>] THEN I ELSE min_index

\* detail::argmin<..., I>: one comparison against the minimum so far
argmin_step(a, less, I, min_index) ==
  IF less[<<a[I], a[min_index]>>] THEN I ELSE min_index

\* vector::argmin(pred); less is pred as a relation on the vector's elements
argmin(a, less) ==
  LET f[I \in 0..Len(a)] ==
        IF I = 0 THEN 1 ELSE argmin_step(a, less, I, f[I - 1])
  IN f[Len(a)]

\* vector::count(pred); holds is pred as a predicate on the elements
count(a, holds) == Cardinality({i \in 1..Len(a) : holds[a[i]]})

full(n, value) == [i \in 1..n |-> value]

zeros(n) == full(n, C(0, 0))

----------------------------------------------------------------------------
(* cmath::convolve_full and cmath::poly *)

convolve_single(a, b, n) ==
  LET term(m) == CMul(IF m >= 0 /\ m < Len(a) THEN a[m + 1] ELSE C(0, 0),
                      IF n - m >= 0 /\ n - m < Len(b) THEN b[n - m + 1]
                                                     ELSE C(0, 0))
      s[m \in 0..n] == CAdd(term(m), IF m < n THEN s[m + 1] ELSE C(0, 0))
  IN s[0]

convolve_full(a, b) ==
  [k \in 1..(Len(a) + Len(b) - 1) |-> convolve_single(a, b, k - 1)] \o <<>>

\* poly with the factors (1, zeros[N - 1]) in place of (1, -zeros[N - 1])
poly_positive_factors(roots) ==
  LET rec[N \in 0..Len(roots)] ==
        IF N = 0 THEN <<C(1, 0)>>
        ELSE convolve_full(rec[N - 1], <<C(1, 0), roots[N]>>)
  IN rec[Len(roots)]

poly(roots) ==
  LET rec[N \in 0..Len(roots)] ==
        IF N = 0 THEN <<C(1, 0)>>
        ELSE convolve_full(rec[N - 1], <<C(1, 0), CNeg(roots[N])>>)
  IN rec[Len(roots)]

real(v) == [k \in 1..Len(v) |-> v[k].re] \o <<>>

----------------------------------------------------------------------------
(* Comparators of the pairing algorithm *)

unit_distance(a) == abs(1 - norm(a))

unit_circle_distance_less(a, b) == unit_distance(a) < unit_distance(b)

\* booleans compare as integers: false < true
BoolLt(x, y) == ~x /\ y

unit_circle_distance_real_less(a, b) ==
  \/ BoolLt(is_real(a), is_real(b))
  \/ (is_real(a) = is_real(a) /\ unit_distance(a) < unit_distance(b))

distance_less(c, a, b) == norm(CSub(a, c)) < norm(CSub(b, c))

\* a distance_real_less that ranks the entries that are not real first
distance_real_less_complex(c, a, b) ==
  \/ BoolLt(is_real(a), is_real(b))
  \/ (is_real(a) = is_real(b) /\ norm(CSub(a, c)) < norm(CSub(b, c)))

distance_real_less(c, a, b) ==
  \/ BoolLt(is_real(b), is_real(a))
  \/ (is_real(a) = is_real(b) /\ norm(CSub(a, c)) < norm(CSub(b, c)))

distance_complex_less(c, a, b) ==
  \/ BoolLt(is_real(a), is_real(b))
  \/ (is_real(a) = is_real(b) /\ norm(CSub(a, c)) < norm(CSub(b, c)))

\* a comparator object, applied to the elements of the vector a
Elems(a) == {a[i] : i \in DOMAIN a}

next_pole_index(ps) ==
  argmin(ps, [e \in Elems(ps) \X Elems(ps) |->
                unit_circle_distance_less(e[1], e[2])])

next_real_pole_index(ps) ==
  argmin(ps, [e \in Elems(ps) \X Elems(ps) |->
                unit_circle_distance_real_less(e[1], e[2])])

nearest_index(a, c) ==
  argmin(a, [e \in Elems(a) \X Elems(a) |-> distance_less(c, e[1], e[2])])

nearest_real_index(a, c) ==
  argmin(a, [e \in Elems(a) \X Elems(a) |->
               distance_real_less(c, e[1], e[2])])

nearest_complex_index(a, c) ==
  argmin(a, [e \in Elems(a) \X Elems(a) |->
               distance_complex_less(c, e[1], e[2])])

conjugate_index(a, c) == nearest_index(a, conj(c))

----------------------------------------------------------------------------
(* sos_section *)

\* sos_section(zeros, poles, gain): b = real(gain * poly(zeros)),
\* a = real(poly(poles)); the imaginary parts are dropped
sos_section_ba(b, a) ==
  [b0 |-> b[1], b1 |-> b[2], b2 |-> b[3], a1 |-> a[2], a2 |-> a[3]]

scale(g, v) == [k \in 1..Len(v) |-> FMul(g, F(v[k]))] \o <<>>

lift(v) == [k \in 1..Len(v) |-> F(v[k])] \o <<>>

sos_section(zs, ps, g) ==
  sos_section_ba(scale(g, real(poly(zs))), lift(real(poly(ps))))

----------------------------------------------------------------------------
(* zpk_value::even, sos_design *)

sos_count(N) == (N + 1) \div 2

\* even() padding the zeros only
even_zeros_only(k) ==
  [zeros |-> k.zeros \o zeros(Len(k.zeros) % 2),
   poles |-> k.poles,
   gain  |-> k.gain]

even(k) ==
  [zeros |-> k.zeros \o zeros(Len(k.zeros) % 2),
   poles |-> k.poles \o zeros(Len(k.poles) % 2),
   gain  |-> k.gain]

\* build_sos taking the root by the order instead of the section count
build_sos_gain_order(k, m, N) ==
  IF m = "distribute" THEN pow_inv(k.gain, N) ELSE {F(k.gain)}

\* the gain argument build_sos passes to zpk_to_sos (possible values)
build_sos_gain(k, m, N) ==
  IF m = "distribute" THEN pow_inv(k.gain, sos_count(N)) ELSE {F(k.gain)}

----------------------------------------------------------------------------
(* zpk_to_sos: one recursion level (step0 .. finish) *)

\* finish() giving the gain to every section
finish_gain_always(st, g, distribute_gain) == g

\* the gain finish() gives the section built at level st
finish_gain(st, g, distribute_gain) ==
  IF st = 1 \/ distribute_gain THEN g ELSE F(1)

\* finish: the section's arguments and the sets left for the next level
finish(z1, p1, z2, p2, zs, ps, special) ==
  [z1 |-> z1, p1 |-> p1, z2 |-> z2, p2 |-> p2, z |-> zs, p |-> ps,
   special |-> special]

\* step2a .. step4a: a complex pole was paired with the nearest complex
\* zero; the conjugates of both are added
step4a(z1, p1, z2, p2, zs, ps) ==
  finish(z1, p1, zs[z2], ps[p2], swappop(zs, z2), swappop(ps, p2), TRUE)

step3a(z1, p1, zs, ps) ==
  step4a(z1, p1, conjugate_index(zs, z1), conjugate_index(ps, p1), zs, ps)

step2a(z1, p1, zs, ps) == step3a(zs[z1], p1, swappop(zs, z1), ps)

\* step2b .. step6b: the pole pair is fixed first, then two zeros are found
step6b(p1, p2, z1, z2, zs, ps) ==
  finish(z1, p1, zs[z2], p2, swappop(zs, z2), ps, FALSE)

step5b(p1, p2, z1, zs, ps) ==
  step6b(p1, p2, z1,
         IF is_real(z1) THEN nearest_real_index(zs, p1)
                        ELSE conjugate_index(zs, z1),
         zs, ps)

step4b(p1, p2, z1, zs, ps) == step5b(p1, p2, zs[z1], swappop(zs, z1), ps)

step3b(p1, p2, zs, ps) == step4b(p1, p2, nearest_index(zs, p1), zs, ps)

step2b(p1, p2, zs, ps) == step3b(p1, ps[p2], zs, swappop(ps, p2))

step1(p1, zs, ps) ==
  IF /\ ~is_real(p1)
     /\ count(zs, [e \in Elems(zs) |-> is_real(e)]) = 1
     /\ count(ps, [e \in Elems(ps) |-> is_real(e)]) = 1
  THEN step2a(nearest_complex_index(zs, p1), p1, zs, ps)
  ELSE step2b(p1,
              IF is_real(p1) THEN next_real_pole_index(ps)
                             ELSE conjugate_index(ps, p1),
              zs, ps)

step0(p1, zs, ps) == step1(ps[p1], zs, swappop(ps, p1))

\* operator(): the selection made at one level
select(zs, ps) == step0(next_pole_index(ps), zs, ps)

\* the section finish() constructs from a selection at level st
section_of(s, st, g, distribute_gain) ==
  sos_section(<<s.z1, s.z2>>, <<s.p1, s.p2>>,
              finish_gain(st, g, distribute_gain))

----------------------------------------------------------------------------
(* Inputs of the SOS decomposition *)

PoleVals == {C(0, 0), C(1, 0), C(2, 0), C(0, 1), C(0, -1)}

ZeroVals == {C(-1, 0), C(0, 1), C(0, -1)}

Gains == {-64, 64}

Modes == {"first_section", "distribute"}

Orders == 1..MaxOrder

Zpks ==
  UNION {[zeros : [1..N -> ZeroVals], poles : [1..N -> PoleVals], gain : Gains]
         : N \in Orders}

Order == Len(zpk.poles)

----------------------------------------------------------------------------
(* Specification of the SOS design: sos_design's constructor, then the     *)
(* levels of the zpk_to_sos recursion one at a time                        *)

InitSos ==
  /\ pc = "zpk"
  /\ zpk \in Zpks
  /\ mode \in Modes
  /\ z = <<>> /\ p = <<>>
  /\ gain = F(0)
  /\ Stages = 0
  /\ sos = <<>>
  /\ sel = <<>>
  /\ polyd = <<>>
  /\ inst = <<>>
  /\ tr = <<>>
  /\ proto = <<>>
  /\ vi = <<>> /\ cb = <<>> /\ fn = <<>>

\* sos_design(zpk, mode): build_sos(zpk.even(), mode) enters zpk_to_sos
SosDesign ==
  /\ pc = "zpk"
  /\ pc' = "sos"
  /\ z' = even(zpk).zeros
  /\ p' = even(zpk).poles
  /\ gain' \in build_sos_gain(zpk, mode, Order)
  /\ Stages' = sos_count(Order)
  /\ UNCHANGED <<zpk, mode, sos, sel, fvars, tvars, uvars>>

\* zpk_to_sos<Stages>, Stages >= 1: select, recurse on the rest.  finish()
\* appends the section built here after the remainder's sections, so it goes
\* in front of the sections the outer levels have already contributed
ZpkToSos ==
  /\ pc = "sos"
  /\ Stages >= 1
  /\ \E s \in {select(z, p)} :
        /\ z' = s.z
        /\ p' = s.p
        /\ sos' = <<section_of(s, Stages, gain, mode = "distribute")>> \o sos
        /\ sel' = <<[zeros |-> <<s.z1, s.z2>>, poles |-> <<s.p1, s.p2>>,
                    gain |-> finish_gain(Stages, gain, mode = "distribute"),
                    special |-> s.special]>> \o sel
  /\ Stages' = Stages - 1
  /\ UNCHANGED <<pc, zpk, mode, gain, fvars, tvars, uvars>>

\* zpk_to_sos<0>: the empty array ends the recursion
ZpkToSosDone ==
  /\ pc = "sos"
  /\ Stages = 0
  /\ pc' = "done"
  /\ UNCHANGED <<dvars, fvars, tvars, uvars>>

NextSos == SosDesign \/ ZpkToSos \/ ZpkToSosDone

SpecSos == InitSos /\ [][NextSos]_vars

----------------------------------------------------------------------------
(* Runtime execution: sos_section::filter, filter_chain, poly_design *)

sos_state == [y1 |-> F(0), y2 |-> F(0)]

\* sos_section::filter(state, x): the output and the state it leaves
sos_section_filter(sec, st, x) ==
  LET y == FAdd(FMul(sec.b0, x), st.y1)
  IN [y |-> y,
      state |-> [y1 |-> FAdd(FSub(FMul(sec.b1, x), FMul(sec.a1, y)), st.y2),
                 y2 |-> FSub(FMul(sec.b2, x), FMul(sec.a2, y))]]

\* filter_chain<F, N, I>: section I filters x, the rest of the chain follows
filter_chain_step(secs, acc, I) ==
  LET r == sos_section_filter(secs[I], acc.state[I], acc.y)
  IN [y |-> r.y, state |-> [acc.state EXCEPT ![I] = r.state]]

filter_chain(secs, state, x) ==
  LET f[I \in 0..Len(secs)] ==
        IF I = 0 THEN [y |-> x, state |-> state]
        ELSE filter_chain_step(secs, f[I - 1], I)
  IN f[Len(secs)]

\* poly_design(zpk): b = real(gain * poly(zeros)), a = real(poly(poles))
poly_design(k) ==
  [b |-> scale(F(k.gain), real(poly(k.zeros))),
   a |-> lift(real(poly(k.poles)))]

\* poly_df2t_update<F, N, C>: state[I] for I = N - C - 1, then the next I
poly_df2t_update_step(state, b, a, x, y, I) ==
  [state EXCEPT ![I + 1] =
     FAdd(FSub(FMul(b[I + 2], x), FMul(a[I + 2], y)), state[I + 2])]

\* poly_df2t_update running from I = N - 2 down to 0, in place
poly_df2t_update_decreasing(state, b, a, x, y) ==
  LET N == Len(state)
      f[c \in 0..(N - 1)] ==
        IF c = 0 THEN state
        ELSE poly_df2t_update_step(f[c - 1], b, a, x, y, N - 1 - c)
  IN f[N - 1]

\* poly_df2t_update<F, N>: I = 0 .. N - 2 in this order, in place
poly_df2t_update(state, b, a, x, y) ==
  LET N == Len(state)
      f[c \in 0..(N - 1)] ==
        IF c = 0 THEN state
        ELSE poly_df2t_update_step(f[c - 1], b, a, x, y, c - 1)
  IN f[N - 1]

\* poly_design::filter(state, x)
poly_filter_last(state, b, a, x, y) ==
  [state EXCEPT ![Len(state)] =
     FSub(FMul(b[Len(state) + 1], x), FMul(a[Len(state) + 1], y))]

poly_design_filter(pd, state, x) ==
  LET y == FAdd(FMul(pd.b[1], x), state[1])
  IN [y |-> y,
      state |-> poly_filter_last(poly_df2t_update(state, pd.b, pd.a, x, y),
                                 pd.b, pd.a, x, y)]

\* sos_design::instance(), poly_design::instance(): a zeroed state
instance(kind) ==
  [kind  |-> kind,
   state |-> IF kind = "sos" THEN full(Len(sos), sos_state)
                             ELSE full(Order, F(0)),
   in    |-> <<>>,
   out   |-> <<>>]

\* sos_instance::operator()(x), poly_instance::operator()(x)
call_result(i, x) ==
  IF i.kind = "sos" THEN filter_chain(sos, i.state, x)
                    ELSE poly_design_filter(polyd, i.state, x)

called(i, x, r) ==
  [i EXCEPT !.state = r.state, !.in = Append(i.in, x), !.out = Append(i.out, r.y)]

\* a call whose state lives in the design, shared by the design's instances
call_shared(insts, k, x) ==
  [j \in DOMAIN insts |->
     IF j = k THEN called(insts[k], x, call_result(insts[k], F(x)))
     ELSE IF insts[j].kind = insts[k].kind
          THEN [insts[j] EXCEPT !.state = call_result(insts[k], F(x)).state]
          ELSE insts[j]]

\* the instances after instance k has processed the sample x
call(insts, k, x) ==
  [insts EXCEPT ![k] = called(insts[k], x, call_result(insts[k], F(x)))]

----------------------------------------------------------------------------
(* Specification of one SOS instance and one polynomial instance of the    *)
(* same design, fed the same samples                                       *)

FilterPoleVals == {C(0, 0), C(1, 0), C(0, 1), C(0, -1)}

FilterZeroVals == {C(-1, 0), C(0, 1), C(0, -1)}

FilterGains == {64}

Inputs == {0, 1}

Occ(seq, v) == Cardinality({i \in DOMAIN seq : seq[i] = v})

Range(seq) == {seq[i] : i \in DOMAIN seq}

\* the ZPK invariant: non-real entries occur only in conjugate pairs
ConjugatePairs(seq) ==
  \A v \in Range(seq) : ~is_real(v) => Occ(seq, v) = Occ(seq, conj(v))

ZpkInvariant(k) == ConjugatePairs(k.zeros) /\ ConjugatePairs(k.poles)

FilterZpks ==
  {k \in UNION {[zeros : [1..N -> FilterZeroVals],
                 poles : [1..N -> FilterPoleVals],
                 gain  : FilterGains] : N \in Orders} : ZpkInvariant(k)}

FilterKinds == <<"sos", "poly">>

InitFilter ==
  /\ pc = "zpk"
  /\ zpk \in FilterZpks
  /\ mode \in Modes
  /\ z = <<>> /\ p = <<>>
  /\ gain = F(0)
  /\ Stages = 0
  /\ sos = <<>>
  /\ sel = <<>>
  /\ polyd = <<>>
  /\ inst = <<>>
  /\ tr = <<>>
  /\ proto = <<>>
  /\ vi = <<>> /\ cb = <<>> /\ fn = <<>>

\* iirfilter::design::poly()
PolyDesign ==
  /\ pc = "done"
  /\ polyd = <<>>
  /\ polyd' = poly_design(zpk)
  /\ UNCHANGED <<pc, dvars, inst, tvars, uvars>>

\* design.instance() of the SOS design, then of the polynomial design
InstanceF ==
  /\ pc = "done"
  /\ polyd # <<>>
  /\ Len(inst) < Len(FilterKinds)
  /\ inst' = Append(inst, instance(FilterKinds[Len(inst) + 1]))
  /\ UNCHANGED <<pc, dvars, polyd, tvars, uvars>>

\* one sample through both instances: every sequence up to FreeSamples,
\* the impulse up to Order + ExtraSamples
Sample ==
  /\ Len(inst) = Len(FilterKinds)
  /\ \E x \in Inputs :
       /\ \/ Len(inst[1].in) < FreeSamples
          \/ /\ Len(inst[1].in) < Order + ExtraSamples
             /\ \A n \in 1..Len(inst[1].in) :
                  inst[1].in[n] = IF n = 1 THEN 1 ELSE 0
             /\ x = IF inst[1].in = <<>> THEN 1 ELSE 0
       /\ inst' = call(call(inst, 1, x), 2, x)
  /\ UNCHANGED <<pc, dvars, polyd, tvars, uvars>>

NextFilter ==
  SosDesign \/ ZpkToSos \/ ZpkToSosDone \/ PolyDesign \/ InstanceF \/ Sample

SpecFilter == InitFilter /\ [][NextFilter]_vars

\* C1: an SOS instance and a polynomial instance built from the same ZPK,
\* both starting from zero state, return the same output sample at every
\* step of any input sequence, the impulse over order + 5 samples included.
C1_SameOutput ==
  Len(inst) = 2 =>
    \A n \in 1..Len(inst[1].out) : FEq(inst[1].out[n], inst[2].out[n])

\* the sections of the design are all built from real or conjugate pairs
AllRealPairs ==
  \A k \in 1..Len(sel) :
    /\ is_real(sel[k].poles[1]) \/ sel[k].poles[2] = conj(sel[k].poles[1])
    /\ is_real(sel[k].poles[2]) \/ sel[k].poles[1] = conj(sel[k].poles[2])
    /\ is_real(sel[k].zeros[1]) \/ sel[k].zeros[2] = conj(sel[k].zeros[1])
    /\ is_real(sel[k].zeros[2]) \/ sel[k].zeros[1] = conj(sel[k].zeros[2])

\* the outputs agree whenever no section mixes a real with a non-real root
SameOutputOfRealPairs == AllRealPairs => C1_SameOutput

----------------------------------------------------------------------------
(* Specification of several instances of one design, called in any order   *)

InstZpks ==
  {[zeros |-> <<C(-1, 0)>>, poles |-> <<C(1, 0)>>, gain |-> 64],
   [zeros |-> <<C(0, 1), C(0, -1)>>, poles |-> <<C(0, 1), C(0, -1)>>,
    gain |-> 64],
   [zeros |-> <<C(-1, 0), C(-1, 0), C(-1, 0)>>,
    poles |-> <<C(0, 1), C(0, -1), C(1, 0)>>, gain |-> 64]}

InstKinds == <<"sos", "sos", "poly", "poly">>

InitInst ==
  /\ pc = "zpk"
  /\ zpk \in InstZpks
  /\ mode \in Modes
  /\ z = <<>> /\ p = <<>>
  /\ gain = F(0)
  /\ Stages = 0
  /\ sos = <<>>
  /\ sel = <<>>
  /\ polyd = <<>>
  /\ inst = <<>>
  /\ tr = <<>>
  /\ proto = <<>>
  /\ vi = <<>> /\ cb = <<>> /\ fn = <<>>

\* design.instance(), any number of times on either design
InstanceI ==
  /\ pc = "done"
  /\ polyd # <<>>
  /\ Len(inst) < Len(InstKinds)
  /\ inst' = Append(inst, instance(InstKinds[Len(inst) + 1]))
  /\ UNCHANGED <<pc, dvars, polyd, tvars, uvars>>

\* instance k processes one sample
Call ==
  /\ \E k \in 1..Len(inst), x \in Inputs :
       /\ Len(inst[k].in) < InstSamples
       /\ inst' = call(inst, k, x)
  /\ UNCHANGED <<pc, dvars, polyd, tvars, uvars>>

NextInst ==
  SosDesign \/ ZpkToSos \/ ZpkToSosDone \/ PolyDesign \/ InstanceI \/ Call

SpecInst == InitInst /\ [][NextInst]_vars

zero_state(i) ==
  IF i.kind = "sos" THEN \A n \in 1..Len(i.state) : i.state[n] = sos_state
                    ELSE \A n \in 1..Len(i.state) : i.state[n] = F(0)

\* an instance that has processed nothing holds all-zero state; instances of
\* one design that were given the same samples returned the same samples
C6_Instances ==
  \A j \in 1..Len(inst) :
    /\ inst[j].in = <<>> => zero_state(inst[j])
    /\ \A k \in 1..Len(inst) :
         (inst[j].kind = inst[k].kind /\ inst[j].in = inst[k].in)
           => (inst[j].out = inst[k].out /\ inst[j].state = inst[k].state)

\* a step that changes instance k leaves the designs and every other
\* instance as they were
C6_Frame ==
  \A k \in 1..Len(inst) :
    inst'[k] # inst[k] =>
      /\ sos' = sos /\ polyd' = polyd /\ zpk' = zpk
      /\ \A j \in 1..Len(inst) : j # k => inst'[j] = inst[j]

\* C6: instances start from zeroed state; processing a sample on one
\* instance changes that instance's state only, the design and every other
\* instance stay as they were; two instances of one design fed the same
\* input sequence return the same outputs under any interleaving of calls.
C6_IndependentInstances == []C6_Instances /\ [][C6_Frame]_vars

\* two instances of one design have each processed the same two samples and
\* hold non-zero state, a third one has processed nothing yet
C6_Witness ==
  /\ Len(inst) >= 3
  /\ Len(inst[1].in) = 2 /\ inst[2].in = inst[1].in
  /\ ~zero_state(inst[1])
  /\ inst[3].in = <<>>

----------------------------------------------------------------------------
(* The transforms' floating point values: exact fractions and Inf / NaN *)

IAbs(x) == IF x < 0 THEN -x ELSE x

ISgn(x) == IF x < 0 THEN -1 ELSE IF x > 0 THEN 1 ELSE 0

RECURSIVE GCD(_, _)
GCD(a, b) == IF b = 0 THEN a ELSE GCD(b, a % b)

\* the value n / d: lowest terms, positive denominator; d = 0 is non-finite
Q(n, d) ==
  IF d = 0 THEN [n |-> ISgn(n), d |-> 0]
  ELSE LET g == GCD(IAbs(n), IAbs(d))
       IN [n |-> ISgn(d) * (n \div g), d |-> IAbs(d) \div g]

QInt(x) == [n |-> x, d |-> 1]

QNaN == [n |-> 0, d |-> 0]

QFinite(a) == a.d # 0

QNeg(a) == [n |-> -a.n, d |-> a.d]

\* Inf + Inf = Inf, Inf - Inf = NaN, NaN + x = NaN
QAdd(a, b) ==
  IF a.d = 0 /\ b.d = 0 THEN (IF a.n = b.n THEN a ELSE QNaN)
  ELSE IF a.d = 0 THEN a
  ELSE IF b.d = 0 THEN b
  ELSE Q(a.n * b.d + b.n * a.d, a.d * b.d)

QSub(a, b) == QAdd(a, QNeg(b))

\* Inf * 0 = NaN, NaN * x = NaN
QMul(a, b) == Q(a.n * b.n, a.d * b.d)

\* T{1} / x: 1 / 0 = Inf, 1 / Inf = 0, 1 / NaN = NaN
QInv(a) == Q(a.d, a.n)

\* a < b; false when either is NaN
QLt(a, b) ==
  IF a = QNaN \/ b = QNaN THEN FALSE
  ELSE IF a.d = 0 /\ b.d = 0 THEN a.n < b.n
  ELSE a.n * b.d < b.n * a.d

QPow(a, m) ==
  LET f[k \in 0..m] == IF k = 0 THEN QInt(1) ELSE QMul(a, f[k - 1]) IN f[m]

\* cmath::complex over these values
qcomplex(re, im) == [re |-> re, im |-> im]

qreal(x) == qcomplex(x, QInt(0))

qneg(v) == qcomplex(QNeg(v.re), QNeg(v.im))

qadd(z1, z2) == qcomplex(QAdd(z1.re, z2.re), QAdd(z1.im, z2.im))

qsub(z1, z2) == qcomplex(QSub(z1.re, z2.re), QSub(z1.im, z2.im))

qmul(z1, z2) ==
  qcomplex(QSub(QMul(z1.re, z2.re), QMul(z1.im, z2.im)),
           QAdd(QMul(z1.re, z2.im), QMul(z2.re, z1.im)))

qnorm(v) == QAdd(QMul(v.re, v.re), QMul(v.im, v.im))

\* operator/(complex, complex): (T{1} / z2.norm()) * complex(..), unchecked
qdiv(z1, z2) ==
  qmul(qreal(QInv(qnorm(z2))),
       qcomplex(QAdd(QMul(z1.re, z2.re), QMul(z1.im, z2.im)),
                QSub(QMul(z1.im, z2.re), QMul(z1.re, z2.im))))

qfinite(v) == QFinite(v.re) /\ QFinite(v.im)

----------------------------------------------------------------------------
(* lowpass_zpk, highpass_zpk, bilinear_zpk *)

\* x * vector, x / vector
multiply(x, a) == [i \in 1..Len(a) |-> qmul(qreal(x), a[i])] \o <<>>

divide(x, a) == [i \in 1..Len(a) |-> qdiv(qreal(x), a[i])] \o <<>>

highpass_gain(a, v) == qmul(a, qneg(v))

\* vector::reduce(highpass_gain{}): from the last element down to the first
reduce_highpass_gain(vec) ==
  LET f[j \in 0..Len(vec)] ==
        IF j = 0 THEN qreal(QInt(1))
        ELSE highpass_gain(f[j - 1], vec[Len(vec) - j + 1])
  IN f[Len(vec)]

lowpass_zpk(k, f) ==
  [zeros |-> multiply(f, k.zeros),
   poles |-> multiply(f, k.poles),
   gain  |-> QMul(k.gain, QPow(f, Len(k.poles) - Len(k.zeros)))]

highpass_zpk(k, f) ==
  [zeros |-> divide(f, k.zeros)
               \o full(Len(k.poles) - Len(k.zeros), qreal(QInt(0))),
   poles |-> divide(f, k.poles),
   gain  |-> QMul(k.gain, qdiv(reduce_highpass_gain(k.zeros),
                               reduce_highpass_gain(k.poles)).re)]

\* bilinear_zp with the numerator and the denominator exchanged
bilinear_zp_exchanged(fs, v) ==
  qdiv(qsub(qreal(QMul(QInt(2), fs)), v), qadd(qreal(QMul(QInt(2), fs)), v))

\* bilinear_zp{fs}(v) = (fs2_ + v) / (fs2_ - v)
bilinear_zp(fs, v) ==
  qdiv(qadd(qreal(QMul(QInt(2), fs)), v), qsub(qreal(QMul(QInt(2), fs)), v))

bilinear_gain(fs, a, v) == qmul(a, qsub(qreal(QMul(QInt(2), fs)), v))

reduce_bilinear_gain(fs, vec) ==
  LET f[j \in 0..Len(vec)] ==
        IF j = 0 THEN qreal(QInt(1))
        ELSE bilinear_gain(fs, f[j - 1], vec[Len(vec) - j + 1])
  IN f[Len(vec)]

transform_bilinear_zp(fs, a) ==
  [i \in 1..Len(a) |-> bilinear_zp(fs, a[i])] \o <<>>

\* bilinear_zpk with the padding in front of the transformed zeros
bilinear_zpk_padding_first(k, fs) ==
  [zeros |-> full(Len(k.poles) - Len(k.zeros), qreal(QInt(-1)))
               \o transform_bilinear_zp(fs, k.zeros),
   poles |-> transform_bilinear_zp(fs, k.poles),
   gain  |-> QMul(k.gain, qdiv(reduce_bilinear_gain(fs, k.zeros),
                               reduce_bilinear_gain(fs, k.poles)).re)]

bilinear_zpk(k, fs) ==
  [zeros |-> transform_bilinear_zp(fs, k.zeros)
               \o full(Len(k.poles) - Len(k.zeros), qreal(QInt(-1))),
   poles |-> transform_bilinear_zp(fs, k.poles),
   gain  |-> QMul(k.gain, qdiv(reduce_bilinear_gain(fs, k.zeros),
                               reduce_bilinear_gain(fs, k.poles)).re)]

----------------------------------------------------------------------------
(* Specification of the frequency transforms: an analog ZPK, optionally    *)
(* scaled by lowpass_zpk or highpass_zpk, is mapped by bilinear_zpk         *)

qint(re, im) == qcomplex(QInt(re), QInt(im))

TPoleVals == {qint(-2, 0), qint(-1, 1), qint(0, 0), qint(2, 0)}

TZeroVals == {qint(0, 0), qint(0, 1), qint(2, 0)}

\* zpk_value<Zn, Pn, F> with Zn <= Pn
ZnPn == {zp \in (0..MaxPoles) \X (1..MaxPoles) : zp[1] <= zp[2]}

TZpks ==
  UNION {[zeros : [1..zp[1] -> TZeroVals], poles : [1..zp[2] -> TPoleVals],
          gain : {QInt(2)}] : zp \in ZnPn}

\* warped cutoff frequencies and sampling rates
Freqs == {QInt(f) : f \in 1..MaxFreq}

Rates == {QInt(fs) : fs \in 1..MaxRate}

InitTransform ==
  /\ pc = "analog"
  /\ zpk = <<>> /\ mode = "first_section"
  /\ z = <<>> /\ p = <<>>
  /\ gain = F(0)
  /\ Stages = 0
  /\ sos = <<>>
  /\ sel = <<>>
  /\ polyd = <<>>
  /\ inst = <<>>
  /\ \E k \in TZpks :
       tr = [op |-> "none", arg |-> QInt(0), in |-> k, out |-> k]
  /\ proto = <<>>
  /\ vi = <<>> /\ cb = <<>> /\ fn = <<>>

\* lowpass_zpk(zpk, f)
Lowpass ==
  /\ pc = "analog"
  /\ \E f \in Freqs :
       tr' = [op |-> "lowpass", arg |-> f, in |-> tr.out,
              out |-> lowpass_zpk(tr.out, f)]
  /\ pc' = "scaled"
  /\ UNCHANGED <<dvars, fvars, proto, uvars>>

\* highpass_zpk(zpk, f)
Highpass ==
  /\ pc = "analog"
  /\ \E f \in Freqs :
       tr' = [op |-> "highpass", arg |-> f, in |-> tr.out,
              out |-> highpass_zpk(tr.out, f)]
  /\ pc' = "scaled"
  /\ UNCHANGED <<dvars, fvars, proto, uvars>>

\* bilinear_zpk(zpk, fs)
Bilinear ==
  /\ pc \in {"analog", "scaled"}
  /\ \E fs \in Rates :
       tr' = [op |-> "bilinear", arg |-> fs, in |-> tr.out,
              out |-> bilinear_zpk(tr.out, fs)]
  /\ pc' = "digital"
  /\ UNCHANGED <<dvars, fvars, proto, uvars>>

NextTransform == Lowpass \/ Highpass \/ Bilinear

SpecTransform == InitTransform /\ [][NextTransform]_vars

\* C5: the bilinear transform with fs > 0 maps every pole with negative real
\* part to a pole strictly inside the unit circle, so a ZPK whose poles all
\* have negative real part yields only poles with |pole| < 1.
C5_StablePoles ==
  tr.op = "bilinear" =>
    \A k \in 1..Len(tr.in.poles) :
      QLt(tr.in.poles[k].re, QInt(0)) =>
        /\ qmul(tr.out.poles[k],
                qsub(qreal(QMul(QInt(2), tr.arg)), tr.in.poles[k]))
             = qadd(qreal(QMul(QInt(2), tr.arg)), tr.in.poles[k])
        /\ QLt(qnorm(tr.out.poles[k]), QInt(1))

\* a highpass-scaled ZPK with two poles of negative real part, one of them
\* not real, has been mapped into the unit circle
C5_Witness ==
  /\ tr.op = "bilinear"
  /\ Len(tr.in.poles) = 2
  /\ \A k \in 1..2 : QLt(tr.in.poles[k].re, QInt(0))
  /\ \E k \in 1..2 : tr.in.poles[k].im # QInt(0) /\ tr.in.poles[k].re.d > 1
  /\ \A k \in 1..2 : QLt(qnorm(tr.out.poles[k]), QInt(1))

zpk_finite(k) ==
  /\ \A i \in 1..Len(k.zeros) : qfinite(k.zeros[i])
  /\ \A i \in 1..Len(k.poles) : qfinite(k.poles[i])
  /\ QFinite(k.gain)

\* the transform applied last divides by zero on the ZPK it was given
divides_by_zero ==
  \/ /\ tr.op = "bilinear"
     /\ \E v \in Range(tr.in.zeros) \cup Range(tr.in.poles) :
          v = qreal(QMul(QInt(2), tr.arg))
  \/ /\ tr.op = "highpass"
     /\ \E v \in Range(tr.in.zeros) \cup Range(tr.in.poles) :
          v = qreal(QInt(0))

\* C10: a transform that would divide by zero (bilinear of a pole or zero
\* equal to 2*fs, highpass of a pole or zero equal to 0) reports
\* DegenerateTransform; it returns no ZPK holding a NaN/Inf pole, zero or
\* gain.
C10_NoUndefinedZpk ==
  (divides_by_zero /\ zpk_finite(tr.in)) => zpk_finite(tr.out)

----------------------------------------------------------------------------
(* chebyshev1, chebyshev2: the prototypes by the class of their values.    *)
(* A floating point value is "neg", "zero" or "pos" when finite, else       *)
(* "inf" or "nan".                                                          *)

\* cmath::pow(PF{10}, PF{0.1} * ripple) - PF{1}
pow10_minus_1(ripple) ==
  IF ripple < 0 THEN "neg" ELSE IF ripple = 0 THEN "zero" ELSE "pos"

\* cmath::sqrt: NaN for a negative argument
sqrt(x) == IF x = "neg" THEN "nan" ELSE x

\* 1 / x without a check of x
reciprocal(x) == IF x = "zero" THEN "inf" ELSE IF x = "inf" THEN "zero" ELSE x

\* cmath::asinh keeps the class of its argument
asinh(x) == x

chebyshev1_rf(ripple) == sqrt(pow10_minus_1(ripple))

chebyshev2_rf(ripple) == reciprocal(sqrt(pow10_minus_1(ripple)))

\* mu(): asinh(1 / rf_) / Order, Order > 0
mu(rf) == asinh(reciprocal(rf))

\* the Butterworth pole of index k of order N is real: theta's index is 0
butterworth_real(N, k) == 2 * (k - 1) + 1 - N = 0

\* chebyshev1 poles: minus_sinh(mu + i theta_k), exp(mu) being Inf or NaN
\* when mu is
chebyshev1_pole(m, N, k) ==
  IF m \in {"inf", "nan"} THEN "nonfinite" ELSE "finite"

\* chebyshev2 poles: warp_poles, 1 / complex(sinh(mu) * re, cosh(mu) * im);
\* with mu = 0 the divisor of a real Butterworth pole is 0
chebyshev2_pole(m, N, k) ==
  IF m \in {"inf", "nan"} THEN "nonfinite"
  ELSE IF m = "zero" /\ butterworth_real(N, k) THEN "nonfinite"
  ELSE "finite"

\* specification::zpk(): zpk_value<Zn, Order>
chebyshev_zpk(kind, N, rf) ==
  [Zn |-> IF kind = "chebyshev1" THEN 0 ELSE N - (N % 2),
   poles |-> [k \in 1..N |->
                IF kind = "chebyshev1" THEN chebyshev1_pole(mu(rf), N, k)
                                       ELSE chebyshev2_pole(mu(rf), N, k)]]

Ripples == (-MaxRipple)..MaxRipple

InitProto ==
  /\ pc = "new"
  /\ zpk = <<>> /\ mode = "first_section"
  /\ z = <<>> /\ p = <<>>
  /\ gain = F(0)
  /\ Stages = 0
  /\ sos = <<>>
  /\ sel = <<>>
  /\ polyd = <<>>
  /\ inst = <<>>
  /\ tr = <<>>
  /\ proto = <<>>
  /\ vi = <<>> /\ cb = <<>> /\ fn = <<>>

\* chebyshev1<Order>(ripple): the constructor stores the ripple
Chebyshev1 ==
  /\ pc = "new"
  /\ \E N \in Orders, ripple \in Ripples :
       proto' = [kind |-> "chebyshev1", order |-> N, ripple |-> ripple,
                 rf |-> "unset", zpk |-> <<>>]
  /\ pc' = "prototype"
  /\ UNCHANGED <<dvars, fvars, tr, uvars>>

\* chebyshev2<Order>(ripple)
Chebyshev2 ==
  /\ pc = "new"
  /\ \E N \in Orders, ripple \in Ripples :
       proto' = [kind |-> "chebyshev2", order |-> N, ripple |-> ripple,
                 rf |-> "unset", zpk |-> <<>>]
  /\ pc' = "prototype"
  /\ UNCHANGED <<dvars, fvars, tr, uvars>>

\* spec<F>(): specification(ripple_) computes rf_
Specification ==
  /\ pc = "prototype"
  /\ proto' = [proto EXCEPT !.rf = IF proto.kind = "chebyshev1"
                                   THEN chebyshev1_rf(proto.ripple)
                                   ELSE chebyshev2_rf(proto.ripple)]
  /\ pc' = "specification"
  /\ UNCHANGED <<dvars, fvars, tr, uvars>>

\* specification::zpk()
SpecificationZpk ==
  /\ pc = "specification"
  /\ proto' = [proto EXCEPT
                 !.zpk = chebyshev_zpk(proto.kind, proto.order, proto.rf)]
  /\ pc' = "zpk"
  /\ UNCHANGED <<dvars, fvars, tr, uvars>>

NextProto == Chebyshev1 \/ Chebyshev2 \/ Specification \/ SpecificationZpk

SpecProto == InitProto /\ [][NextProto]_vars

\* C9: a Chebyshev type I or II prototype requested with a non-positive
\* ripple is rejected at construction (InvalidRipple): no specification is
\* built and no ZPK is returned for it.
C9_InvalidRipple ==
  (proto # <<>> /\ proto.ripple <= 0) =>
    (proto.rf = "unset" /\ proto.zpk = <<>>)

----------------------------------------------------------------------------
(* Properties of the SOS design *)

Ceil2(N) == IF N % 2 = 0 THEN N \div 2 ELSE (N \div 2) + 1

SameBag(a, b) ==
  /\ Len(a) = Len(b)
  /\ \A v \in Range(a) \cup Range(b) : Occ(a, v) = Occ(b, v)

\* the poles / zeros handed to the section constructors, in output order
SelPoles ==
  LET f[k \in 0..Len(sel)] == IF k = 0 THEN <<>> ELSE f[k - 1] \o sel[k].poles
  IN f[Len(sel)]

SelZeros ==
  LET f[k \in 0..Len(sel)] == IF k = 0 THEN <<>> ELSE f[k - 1] \o sel[k].zeros
  IN f[Len(sel)]

\* the state in which zpk_to_sos has just been entered by the constructor
Entered == pc = "sos" /\ sel = <<>>

\* C2: an SOS design of order N has exactly ceil(N/2) sections; for odd N
\* the ZPK entering the decomposition is the input followed by one pole at
\* the origin and one zero at the origin, for even N it is the input itself,
\* so 2*ceil(N/2) poles and 2*ceil(N/2) zeros are decomposed.
C2_SectionCount ==
  /\ Entered =>
       /\ Len(p) = 2 * Ceil2(Order) /\ Len(z) = 2 * Ceil2(Order)
       /\ Order % 2 = 1 => /\ p = zpk.poles \o <<C(0, 0)>>
                           /\ z = zpk.zeros \o <<C(0, 0)>>
       /\ Order % 2 = 0 => p = zpk.poles /\ z = zpk.zeros
  /\ pc = "done" => Len(sos) = Ceil2(Order)

C2_Witness == pc = "done" /\ Order = 3 /\ Len(sos) = 2

\* C3: zpk_to_sos uses every input pole in exactly one section and every
\* input zero in exactly one section: at every level the poles (zeros) given
\* to sections so far together with those still to be paired are the input
\* multiset, and at the end nothing is left over.
C3_EveryRootOnce ==
  pc \in {"sos", "done"} =>
    /\ SameBag(SelPoles \o p, even(zpk).poles)
    /\ SameBag(SelZeros \o z, even(zpk).zeros)
    /\ \A k \in 1..Len(sel) : Len(sel[k].poles) = 2 /\ Len(sel[k].zeros) = 2
    /\ pc = "done" => p = <<>> /\ z = <<>> /\ Len(sel) = sos_count(Order)

C3_Witness ==
  /\ pc = "done" /\ Len(sel) = 2 /\ mode = "distribute"
  /\ \E k \in 1..2 : sel[k].special

RealPair(pair) ==
  \/ is_real(pair[1]) /\ is_real(pair[2])
  \/ ~is_real(pair[1]) /\ pair[2] = conj(pair[1])

\* C4: when the input satisfies the ZPK invariant, the two poles of every
\* section are both real or a conjugate pair, and so are its two zeros (the
\* section's coefficients are real without truncation).
C4_RealSections ==
  ZpkInvariant(zpk) =>
    \A k \in 1..Len(sel) : RealPair(sel[k].poles) /\ RealPair(sel[k].zeros)

\* product of the partial gains given to the sections
GainProduct ==
  LET f[k \in 0..Len(sel)] ==
        IF k = 0 THEN F(1) ELSE FMul(f[k - 1], sel[k].gain)
  IN f[Len(sel)]

EqualGains ==
  /\ \A k \in 1..Len(sel) : FEq(sel[k].gain, sel[1].gain)
  /\ FEq(GainProduct, F(zpk.gain))

Numerator(g, zs) ==
  <<g, FMul(g, F(-(zs[1].re + zs[2].re))), FMul(g, F(CMul(zs[1], zs[2]).re))>>

\* C8: with gain mode first_section exactly one section carries the overall
\* gain, the one at index 0 of the output, which is built from the pole pair
\* selected last; its numerator is gain * poly(zeros).  Every other section
\* has partial gain 1 and leading numerator coefficient 1.
C8_FirstSection ==
  (pc \in {"sos", "done"} /\ mode = "first_section") =>
    \A k \in 1..Len(sel) :
      LET g == IF k = 1 /\ Stages = 0 THEN F(zpk.gain) ELSE F(1)
      IN /\ sel[k].gain = g
         /\ <<sos[k].b0, sos[k].b1, sos[k].b2>> = Numerator(g, sel[k].zeros)

C8_Witness ==
  /\ pc = "done" /\ mode = "first_section" /\ Len(sos) = 2
  /\ sos[1].b0 = F(64) /\ sos[2].b0 = F(1)

----------------------------------------------------------------------------
(* embedded::varint.  A value of a w-bit integer type is its bit pattern:  *)
(* a sequence of w bits, least significant first, so that the 32 and 64    *)
(* bit types keep their width.  Bytes are numbers 0 .. 255.                 *)

\* longest byte buffer handed to encode
MaxBuf == 10

VarintBits == {8, 16, 32, 64}

VarintTypes == [bits : VarintBits, signed : BOOLEAN]

\* T{0}, ~T{0}
bv_zero(w) == [i \in 1..w |-> 0]

bv_ones(w) == [i \in 1..w |-> 1]

\* value >> k, value << k within the width of the type
bv_shr(v, k) == [i \in 1..Len(v) |-> IF i + k <= Len(v) THEN v[i + k] ELSE 0]

bv_shl(v, k) == [i \in 1..Len(v) |-> IF i - k >= 1 THEN v[i - k] ELSE 0]

bv_xor(a, b) == [i \in 1..Len(a) |-> (a[i] + b[i]) % 2]

\* value < 128
bv_lt128(v) == \A i \in 8..Len(v) : v[i] = 0

\* value & 0x7f, static_cast<uint8_t>(value)
bv_low7(v) ==
  v[1] + 2 * v[2] + 4 * v[3] + 8 * v[4] + 16 * v[5] + 32 * v[6] + 64 * v[7]

bv_low8(v) == bv_low7(v) + 128 * v[8]

\* bit j of a byte
byte_bit(b, j) == (b \div Pow(2, j)) % 2

\* value |= static_cast<T>(chunk) << shift
bv_or_shifted(v, chunk, shift) ==
  [i \in 1..Len(v) |->
     IF i > shift /\ i <= shift + 7 /\ byte_bit(chunk, i - shift - 1) = 1
     THEN 1 ELSE v[i]]

\* zig_zag_encode(value) of exchanged shifts: (value >> 1) ^ -(value & 1)
zig_zag_encode_shr(v) ==
  bv_xor(bv_shr(v, 1), IF v[1] = 1 THEN bv_ones(Len(v)) ELSE bv_zero(Len(v)))

\* zig_zag_encode: (U(value) << 1) ^ -(U(value) >> (8 * sizeof(T) - 1))
zig_zag_encode(v) ==
  bv_xor(bv_shl(v, 1),
         IF v[Len(v)] = 1 THEN bv_ones(Len(v)) ELSE bv_zero(Len(v)))

\* zig_zag_decode without the negation: (value >> 1) ^ (value & 1)
zig_zag_decode_no_negate(v) ==
  bv_xor(bv_shr(v, 1), [i \in 1..Len(v) |-> IF i = 1 THEN v[1] ELSE 0])

\* zig_zag_decode: (value >> 1) ^ -(value & 1)
zig_zag_decode(v) ==
  bv_xor(bv_shr(v, 1), IF v[1] = 1 THEN bv_ones(Len(v)) ELSE bv_zero(Len(v)))

\* varint::size of an unsigned value
RECURSIVE varint_size_unsigned(_)
varint_size_unsigned(v) ==
  IF bv_lt128(v) THEN 1 ELSE 1 + varint_size_unsigned(bv_shr(v, 7))

\* varint::size(value) of a value of type T
varint_size(T, v) ==
  IF T.signed THEN varint_size_unsigned(zig_zag_encode(v))
              ELSE varint_size_unsigned(v)

\* a check_iter that never sees the end of the buffer
check_iter_true(it, buf, checked) == TRUE

\* check_iter(it) of the range-checked encode: it != end; of the others: true
check_iter(it, buf, checked) == ~checked \/ it # Len(buf)

\* a store that drops the most significant bit of the byte
store_low7(buf, it, byte) ==
  IF it < Len(buf) THEN [buf EXCEPT ![it + 1] = byte % 128]
                   ELSE Append(buf, byte % 128)

\* *it++ = byte: through a back_insert_iterator the container grows
store(buf, it, byte) ==
  IF it < Len(buf) THEN [buf EXCEPT ![it + 1] = byte] ELSE Append(buf, byte)

\* encode_impl(value, begin, check_iter): the returned iterator as an offset
\* from begin (0 is begin itself), the buffer, and the offsets written
RECURSIVE encode_loop(_, _, _, _)
encode_loop(v, buf, it, checked) ==
  IF check_iter(it, buf, checked) /\ ~bv_lt128(v)
  THEN encode_loop(bv_shr(v, 7), store(buf, it, 128 + bv_low7(v)), it + 1,
                   checked)
  ELSE IF check_iter(it, buf, checked)
       THEN [ret |-> it + 1, buf |-> store(buf, it, bv_low8(v)),
             written |-> 0..it]
       ELSE [ret |-> 0, buf |-> buf, written |-> 0..(it - 1)]

encode_impl(v, buf, checked) == encode_loop(v, buf, 0, checked)

\* encode(value, begin, end) and encode(value, back_inserter) for type T
encode(T, v, buf, checked) ==
  encode_impl(IF T.signed THEN zig_zag_encode(v) ELSE v, buf, checked)

\* a final byte that is taken whatever bits it holds
decode_overflow_unchecked(type_bits, shift, byte) == FALSE

\* the final byte holds bits beyond the width of the type:
\* shift > type_bits - 7 && (byte >> (type_bits - shift)) != 0
decode_overflow(type_bits, shift, byte) ==
  shift > type_bits - 7 /\ byte \div Pow(2, type_bits - shift) # 0

\* the loop of decode into an unsigned type of type_bits bits, reading
\* [begin, begin + last)
RECURSIVE decode_loop(_, _, _, _, _, _)
decode_loop(buf, last, type_bits, it, shift, value) ==
  IF it # last /\ shift <= type_bits - 1
  THEN LET byte == buf[it + 1]
           v2 == bv_or_shifted(value, byte % 128, shift)
       IN IF byte < 128
          THEN IF decode_overflow(type_bits, shift, byte)
               THEN [ret |-> 0, value |-> v2]
               ELSE [ret |-> it + 1, value |-> v2]
          ELSE decode_loop(buf, last, type_bits, it + 1, shift + 7, v2)
  ELSE [ret |-> 0, value |-> value]

decode_unsigned(type_bits, buf, last) ==
  decode_loop(buf, last, type_bits, 0, 0, bv_zero(type_bits))

\* decode(value, begin, end) for type T; prior is what value held before
decode(T, buf, last, prior) ==
  IF ~T.signed THEN decode_unsigned(T.bits, buf, last)
  ELSE LET r == decode_unsigned(T.bits, buf, last)
       IN [ret |-> r.ret,
           value |-> IF r.ret # 0 THEN zig_zag_decode(r.value) ELSE prior]

----------------------------------------------------------------------------
(* Specification of varint: a value of one of the eight integer types is   *)
(* encoded into a buffer, then the buffer is decoded                        *)

\* bit patterns: every 8 bit value; of the wider types 0, the powers of two
\* 2^k, 2^k - 1 up to the maximum (the signed minimum, maximum and -1 among
\* them) and the maximum without one bit
VarintValues(w) ==
  IF w = 8 THEN {v \o <<>> : v \in [1..8 -> {0, 1}]}
  ELSE UNION {{[i \in 1..w |-> IF i = k THEN 1 ELSE 0] \o <<>>,
               [i \in 1..w |-> IF i <= k THEN 1 ELSE 0] \o <<>>,
               [i \in 1..w |-> IF i = k THEN 0 ELSE 1] \o <<>>} : k \in 1..w}
       \cup {bv_zero(w) \o <<>>}

\* the types a buffer encoded from type T is decoded into
DecodeTypes(T) ==
  IF T.signed THEN {T} ELSE [bits : VarintBits, signed : {FALSE}]

SignalIdle ==
  /\ zpk = <<>> /\ mode = "first_section"
  /\ z = <<>> /\ p = <<>>
  /\ gain = F(0)
  /\ Stages = 0
  /\ sos = <<>>
  /\ sel = <<>>
  /\ polyd = <<>>
  /\ inst = <<>>
  /\ tr = <<>>
  /\ proto = <<>>

\* std::vector<uint8_t> buf; buf.resize(cap)
InitVarint ==
  /\ pc = "value"
  /\ SignalIdle
  /\ \E T \in VarintTypes, cap \in 0..MaxBuf :
       \E v \in VarintValues(T.bits) :
         vi = [T |-> T, value |-> v, cap |-> cap,
               buf |-> [i \in 1..cap |-> 0],
               ret |-> 0, written |-> {}, dec |-> <<>>]
  /\ cb = <<>> /\ fn = <<>>

\* it = varint::encode(value, buf.begin(), buf.end())
Encode ==
  /\ pc = "value"
  /\ \E r \in {encode(vi.T, vi.value, vi.buf, TRUE)} :
       vi' = [vi EXCEPT !.buf = r.buf, !.ret = r.ret, !.written = r.written]
  /\ pc' = "encoded"
  /\ UNCHANGED <<svars, cb, fn>>

\* varint::encode(value, std::back_inserter(buf)) on an empty vector
EncodeBack ==
  /\ pc = "value"
  /\ vi.buf = <<>>
  /\ \E r \in {encode(vi.T, vi.value, vi.buf, FALSE)} :
       vi' = [vi EXCEPT !.buf = r.buf, !.ret = r.ret, !.written = r.written]
  /\ pc' = "appended"
  /\ UNCHANGED <<svars, cb, fn>>

\* T2 out; it = varint::decode(out, buf.begin(), buf.begin() + last), of the
\* buffer as encode left it
Decode ==
  /\ pc \in {"encoded", "appended"}
  /\ \E T2 \in DecodeTypes(vi.T), last \in 0..Len(vi.buf) :
       \E r \in {decode(T2, vi.buf, last, <<>>)} :
         vi' = [vi EXCEPT !.dec = [T |-> T2, last |-> last, ret |-> r.ret,
                                   value |-> r.value]]
  /\ pc' = "decoded"
  /\ UNCHANGED <<svars, cb, fn>>

NextVarint == Encode \/ EncodeBack \/ Decode

SpecVarint == InitVarint /\ [][NextVarint]_vars

\* C11: for every value v of every 8, 16, 32 and 64 bit unsigned and signed
\* type T, encoding v into a buffer of exactly size(v) bytes returns the end
\* of the buffer, and decoding that buffer into a T returns the end of the
\* buffer and yields v.
C11_RoundTrip ==
  /\ (pc = "encoded" /\ Len(vi.buf) = varint_size(vi.T, vi.value))
       => vi.ret = Len(vi.buf)
  /\ (/\ pc = "decoded"
      /\ Len(vi.buf) = varint_size(vi.T, vi.value)
      /\ vi.dec.T = vi.T
      /\ vi.dec.last = Len(vi.buf))
       => (vi.dec.ret = Len(vi.buf) /\ vi.dec.value = vi.value)

\* the minimum of int64_t went through a buffer of exactly size(v) = 10 bytes
C11_Witness ==
  /\ pc = "decoded"
  /\ vi.T = [bits |-> 64, signed |-> TRUE]
  /\ vi.value = [i \in 1..64 |-> IF i = 64 THEN 1 ELSE 0]
  /\ Len(vi.buf) = 10 /\ vi.ret = 10
  /\ vi.dec.T = vi.T /\ vi.dec.last = 10
  /\ vi.dec.ret = 10 /\ vi.dec.value = vi.value

\* the encode call at hand succeeded on a value of an unsigned type
EncodedUnsigned ==
  pc \in {"encoded", "appended"} /\ vi.ret # 0 /\ ~vi.T.signed

\* bit i (from 1) of a value, 0 beyond its width
BitAt(v, i) == IF i <= Len(v) THEN v[i] ELSE 0

\* the j-th 7 bit group of a value, least significant group first
Group(v, j) ==
  BitAt(v, 7 * j - 6) + 2 * BitAt(v, 7 * j - 5) + 4 * BitAt(v, 7 * j - 4)
    + 8 * BitAt(v, 7 * j - 3) + 16 * BitAt(v, 7 * j - 2)
    + 32 * BitAt(v, 7 * j - 1) + 64 * BitAt(v, 7 * j)

\* number of 7 bit groups up to the most significant set bit, at least one
Groups(v) ==
  IF \A i \in 1..Len(v) : v[i] = 0 THEN 1
  ELSE LET top == CHOOSE i \in 1..Len(v) :
                    v[i] = 1 /\ \A k \in (i + 1)..Len(v) : v[k] = 0
       IN (top + 6) \div 7

\* the value n < 2^16 as a bit pattern of w bits
BitsOf(n, w) == [i \in 1..w |-> IF i <= 16 THEN byte_bit(n, i - 1) ELSE 0]

\* C12: the encoding of an unsigned value v is its 7 bit groups, least
\* significant first, the most significant bit set on every byte but the
\* last; it has size(v) bytes, size(v) = 1 for v < 128 and 1 + size(v >> 7)
\* otherwise, so the maximum of a w bit type takes ceil(w / 7) bytes, 128 is
\* (128, 1) and 16383 is (255, 127).
C12_Encoding ==
  EncodedUnsigned =>
    /\ vi.ret = varint_size(vi.T, vi.value)
    /\ vi.ret = Groups(vi.value)
    /\ varint_size(vi.T, vi.value) =
         IF bv_lt128(vi.value) THEN 1
         ELSE 1 + varint_size(vi.T, bv_shr(vi.value, 7))
    /\ \A j \in 1..vi.ret :
         /\ vi.buf[j] % 128 = Group(vi.value, j)
         /\ vi.buf[j] >= 128 <=> j < vi.ret
    /\ vi.value = bv_ones(vi.T.bits) => vi.ret = (vi.T.bits + 6) \div 7
    /\ vi.value = BitsOf(128, vi.T.bits)
         => SubSeq(vi.buf, 1, vi.ret) = <<128, 1>>
    /\ (vi.T.bits >= 16 /\ vi.value = BitsOf(16383, vi.T.bits))
         => SubSeq(vi.buf, 1, vi.ret) = <<255, 127>>

\* 16383 of uint32_t was encoded as (255, 127) into a longer buffer
C12_Witness ==
  /\ EncodedUnsigned
  /\ vi.T.bits = 32
  /\ vi.value = BitsOf(16383, 32)
  /\ Len(vi.buf) > 2
  /\ vi.ret = 2 /\ vi.buf[1] = 255 /\ vi.buf[2] = 127

\* the value fits into an unsigned type of the given width
Fits(v, bits) == \A i \in (bits + 1)..Len(v) : v[i] = 0

\* the value converted to an unsigned type of the given width
Converted(v, bits) == [i \in 1..bits |-> BitAt(v, i)]

\* an unsigned value was encoded and the buffer decoded into an unsigned type
DecodedUnsigned == pc = "decoded" /\ ~vi.T.signed /\ ~vi.dec.T.signed

\* C13: decode into an unsigned type T returns begin when the range ends
\* before a byte with a clear most significant bit is read (the empty range
\* included) and when the encoded value does not fit into T; the encoding of
\* a value w produced by encode is decoded (the iterator just past its final
\* byte is returned and w is yielded) exactly when w <= max(T).
C13_DecodeErrors ==
  DecodedUnsigned =>
    /\ (\A j \in 1..vi.dec.last : vi.buf[j] >= 128) => vi.dec.ret = 0
    /\ (vi.ret # 0 /\ ~Fits(vi.value, vi.dec.T.bits)) => vi.dec.ret = 0
    /\ (vi.ret # 0 /\ vi.dec.last >= vi.ret) =>
         /\ vi.dec.ret # 0 <=> Fits(vi.value, vi.dec.T.bits)
         /\ vi.dec.ret # 0 =>
              /\ vi.dec.ret = vi.ret
              /\ vi.dec.value = Converted(vi.value, vi.dec.T.bits)

\* 256 of uint16_t does not decode into uint8_t; 2^32 - 1 of uint64_t, given
\* in a longer buffer, decodes into uint32_t; a range cut short decodes into
\* nothing
C13_WitnessOverflow ==
  /\ DecodedUnsigned
  /\ vi.T.bits = 16 /\ vi.dec.T.bits = 8
  /\ vi.value = BitsOf(256, 16)
  /\ vi.dec.last = vi.ret
  /\ vi.dec.ret = 0

C13_Witness ==
  /\ DecodedUnsigned
  /\ vi.T.bits = 64 /\ vi.dec.T.bits = 32
  /\ vi.value = [i \in 1..64 |-> IF i <= 32 THEN 1 ELSE 0]
  /\ vi.dec.last > vi.ret
  /\ vi.dec.ret = 5
  /\ vi.dec.value = bv_ones(32)

\* C14: range-checked encode(v, begin, end) returns begin exactly when the
\* buffer has fewer than size(v) bytes; otherwise it returns begin + size(v)
\* and has written those size(v) bytes only; in the error case every byte
\* of [begin, end) has been overwritten.
C14_EncodeRange ==
  pc = "encoded" =>
    /\ vi.ret = 0 <=> vi.cap < varint_size(vi.T, vi.value)
    /\ Len(vi.buf) = vi.cap
    /\ vi.ret # 0 =>
         /\ vi.ret = varint_size(vi.T, vi.value)
         /\ vi.written = 0..(vi.ret - 1)
         /\ \A j \in (vi.ret + 1)..vi.cap : vi.buf[j] = 0
    /\ vi.ret = 0 =>
         /\ vi.written = 0..(vi.cap - 1)
         /\ \A j \in 1..vi.cap : vi.buf[j] >= 128

\* a value of three bytes was refused by a buffer of two, both overwritten
C14_Witness ==
  /\ pc = "encoded"
  /\ varint_size(vi.T, vi.value) = 3
  /\ vi.cap = 2
  /\ vi.ret = 0
  /\ vi.written = {0, 1}
  /\ vi.buf[1] >= 128 /\ vi.buf[2] >= 128

----------------------------------------------------------------------------
(* embedded::circular_buffer_adapter.  A pointer into the managed memory   *)
(* is its offset from begin_ (end_ is the offset capacity()); slot k of the *)
(* memory is mem[k + 1].  An adapter b is the record of its fields with    *)
(* the memory it manages, the slots that hold a live object (element types *)
(* that are not trivial), and the deque ref the same calls were made on.    *)

\* slots of the largest managed memory
MaxCap == 3

capacity(b) == b.C

empty(b) == b.size = 0

cb_full(b) == b.size = capacity(b)

remaining(b) == capacity(b) - b.size

wrap_around(b, n) == n - capacity(b)

\* add(p, n): p + (n < distance(p, end_) ? n : wrap_around(n))
add(b, ptr, n) == ptr + (IF n < capacity(b) - ptr THEN n ELSE wrap_around(b, n))

\* sub(p, n): p - (n <= distance(begin_, p) ? n : wrap_around(n))
sub(b, ptr, n) == ptr - (IF n <= ptr THEN n ELSE wrap_around(b, n))

\* inc(p): if (++p == end_) p = begin_
inc(b, ptr) == IF ptr + 1 = capacity(b) THEN 0 ELSE ptr + 1

\* dec(p): if (p == begin_) p = end_; --p
dec(b, ptr) == (IF ptr = 0 THEN capacity(b) ELSE ptr) - 1

prev(b, ptr) == dec(b, ptr)

\* *p
deref(b, ptr) == b.mem[ptr + 1]

front(b) == deref(b, b.first)

\* *((last_ != begin_ ? last_ : end_) - 1)
back(b) == deref(b, (IF b.last # 0 THEN b.last ELSE capacity(b)) - 1)

\* operator[](pos)
at(b, pos) == deref(b, add(b, b.first, pos))

\* new (p) value_type(value)
construct(b, ptr, value) ==
  [b EXCEPT !.mem[ptr + 1] = value,
            !.live = IF b.trivial THEN b.live ELSE b.live \cup {ptr},
            !.twice = b.twice \/ (~b.trivial /\ ptr \in b.live)]

\* destroy(p): p->~value_type()
destroy(b, ptr) ==
  [b EXCEPT !.live = b.live \ {ptr},
            !.twice = b.twice \/ ptr \notin b.live]

\* destroy<T>(first, count): nothing for a trivial T, else count times
\* destroy(first), inc(first)
destroy_n(b, ptr, n) ==
  IF b.trivial THEN b
  ELSE LET f[k \in 0..n] ==
             IF k = 0 THEN [b |-> b, ptr |-> ptr]
             ELSE [b |-> destroy(f[k - 1].b, f[k - 1].ptr),
                   ptr |-> inc(b, f[k - 1].ptr)]
       IN f[n].b

\* destroy(p) of a single element: the destructor of a trivial T does nothing
destroy_1(b, ptr) == IF b.trivial THEN b ELSE destroy(b, ptr)

\* the constructor (data, capacity, first_index, item_count) over a memory
\* whose slots in objects hold a live object: it sets the four pointers and
\* the size
circular_buffer_adapter(trivial, data, objects, first_index, item_count) ==
  LET b0 == [trivial |-> trivial, C |-> Len(data), mem |-> data,
             first |-> first_index, last |-> 0, size |-> item_count,
             live |-> objects, twice |-> FALSE]
  IN [b0 EXCEPT !.last = add(b0, first_index, item_count)]

\* clear that does not destroy the elements
clear_no_destroy(b) == [b EXCEPT !.first = 0, !.last = 0, !.size = 0]

clear(b) ==
  [destroy_n(b, b.first, b.size) EXCEPT !.first = 0, !.last = 0, !.size = 0]

\* push_back, emplace_back
push_back(b, value) ==
  [construct(b, b.last, value) EXCEPT !.last = inc(b, b.last),
                                      !.size = b.size + 1]

\* push_front constructing at first_ instead of prev(first_)
push_front_at_first(b, value) ==
  [construct(b, b.first, value) EXCEPT !.first = dec(b, b.first),
                                       !.size = b.size + 1]

\* push_front, emplace_front
push_front(b, value) ==
  [construct(b, prev(b, b.first), value) EXCEPT !.first = dec(b, b.first),
                                                !.size = b.size + 1]

pop_front(b) ==
  [destroy_1(b, b.first) EXCEPT !.first = inc(b, b.first),
                                !.size = b.size - 1]

pop_front_n(b, n) ==
  [destroy_n(b, b.first, n) EXCEPT !.first = add(b, b.first, n),
                                       !.size = b.size - n]

pop_back(b) ==
  [destroy_1(b, dec(b, b.last)) EXCEPT !.last = dec(b, b.last),
                                       !.size = b.size - 1]

pop_back_n(b, n) ==
  [destroy_n(b, sub(b, b.last, n), n)
     EXCEPT !.last = sub(b, b.last, n), !.size = b.size - n]

\* std::memcpy(dest, src, sizeof(*dest) * count) into the managed memory
memcpy_in(b, dest, src) ==
  [b EXCEPT !.mem = [i \in 1..Len(b.mem) |->
                       IF i - 1 >= dest /\ i - 1 < dest + Len(src)
                       THEN src[i - dest] ELSE b.mem[i]]]

\* std::memcpy(dest, src, sizeof(*dest) * count) out of the managed memory
memcpy_out(b, src, n) == [k \in 1..n |-> b.mem[src + k]]

\* copy_in_impl copying the second part from the start of the data again
copy_in_impl_restart(b, dest, src) ==
  IF dest + Len(src) <= capacity(b) THEN memcpy_in(b, dest, src)
  ELSE LET count_a == capacity(b) - dest
       IN memcpy_in(memcpy_in(b, dest, SubSeq(src, 1, count_a)), 0,
                    SubSeq(src, 1, Len(src) - count_a))

\* copy_in(dest, src, count): split at end_ if the range runs beyond it
copy_in_impl(b, dest, src) ==
  IF dest + Len(src) <= capacity(b) THEN memcpy_in(b, dest, src)
  ELSE LET count_a == capacity(b) - dest
       IN memcpy_in(memcpy_in(b, dest, SubSeq(src, 1, count_a)), 0,
                    SubSeq(src, count_a + 1, Len(src)))

\* copy_out(dest, src, count): what is stored to dest[0 .. count)
copy_out_impl(b, src, n) ==
  IF src + n <= capacity(b) THEN memcpy_out(b, src, n)
  ELSE LET count_a == capacity(b) - src
       IN memcpy_out(b, src, count_a) \o memcpy_out(b, 0, n - count_a)

copy_in_front(b, data) ==
  LET new_first == sub(b, b.first, Len(data))
  IN [copy_in_impl(b, new_first, data) EXCEPT !.size = b.size + Len(data),
                                              !.first = new_first]

copy_in_back(b, data) ==
  [copy_in_impl(b, b.last, data) EXCEPT !.last = add(b, b.last, Len(data)),
                                        !.size = b.size + Len(data)]

\* copy_out_front(data, count): the adapter after the call and data
copy_out_front(b, n) ==
  [b |-> [b EXCEPT !.first = add(b, b.first, n), !.size = b.size - n],
   data |-> copy_out_impl(b, b.first, n)]

\* copy_out_back(data, count): the adapter after the call and data
copy_out_back(b, n) ==
  LET new_last == sub(b, b.last, n)
  IN [b |-> [b EXCEPT !.size = b.size - n, !.last = new_last],
      data |-> copy_out_impl(b, new_last, n)]

\* what a constructor that throws may have left in the slot
Junk == 0

\* a push whose constructor throws keeping the count it has not reached
construct_throws_counted(b, ptr) ==
  [b EXCEPT !.mem[ptr + 1] = Junk, !.size = b.size + 1]

\* new (p) value_type(...) throws: no object exists in the slot, and no
\* statement after it is executed
construct_throws(b, ptr) == [b EXCEPT !.mem[ptr + 1] = Junk]

\* the null pointer, no offset into the memory
nullptr == -1

first_iter(b) == IF b.size # 0 THEN b.first ELSE nullptr

\* index(p) of the adapter
index(b, ptr) ==
  IF ptr < b.first THEN (capacity(b) - b.first) + ptr ELSE ptr - b.first

\* index() of an iterator
iter_index(b, it) == IF it # nullptr THEN index(b, it) ELSE b.size

cb_begin(b) == first_iter(b)

cb_end(b) == nullptr

\* operator++ that keeps the pointer when it arrives at last_
iter_inc_no_end(b, it) == inc(b, it)

\* operator++ of the iterator
iter_inc(b, it) ==
  IF inc(b, it) = b.last THEN nullptr ELSE inc(b, it)

\* operator-- of the iterator
iter_dec(b, it) == dec(b, IF it = nullptr THEN b.last ELSE it)

\* operator-(other) of the iterator
iter_diff(b, it, other) == iter_index(b, it) - iter_index(b, other)

\* operator== of the iterator
iter_eq(it, other) == it = other

----------------------------------------------------------------------------
(* Specification of the circular buffer: an adapter constructed over a     *)
(* memory of C slots, then any calls that respect the asserted             *)
(* preconditions.  cb = [b, ref, op, arg, out, it]: the adapter, the         *)
(* reference deque, the call made last, the data or count of a bulk copy,   *)
(* what a copy_out call stored, and an iterator                              *)
(* with the elements it was dereferenced at since begin() or end().         *)

\* values pushed and copied in; slot k of the initial memory holds k + 1
CbVals == {8, 9}

\* first_index of the constructor
FirstIndexes(cap) == 0..(cap - 1)

\* the contents the constructor assumes: data[(f + k) mod C], k < n
InitialContents(data, f, n) ==
  [k \in 1..n |-> data[((f + k - 1) % Len(data)) + 1]]

\* the state after a call: a copy_out result and an iterator do not outlive it
\* the slots that hold a valid instance when the adapter is constructed
\* over a buffer of n items starting at slot f: the n slots from f on for a
\* type that is not trivial
ValidInstances(trivial, cap, f, n) ==
  IF trivial THEN {} ELSE {(f + k) % cap : k \in 0..(n - 1)}

NoIterator == [ptr |-> nullptr, seen |-> <<>>, dir |-> "none"]

Called(b, ref, op) ==
  [b |-> b, ref |-> ref, op |-> op, arg |-> <<>>, out |-> <<>>,
   it |-> NoIterator]

InitCb ==
  /\ pc = "buffer"
  /\ SignalIdle
  /\ vi = <<>> /\ fn = <<>>
  /\ \E trivial \in BOOLEAN, cap \in 1..MaxCap :
       \E f \in FirstIndexes(cap), n \in 0..cap :
         cb = Called(circular_buffer_adapter(trivial, [i \in 1..cap |-> i],
                                             ValidInstances(trivial, cap, f, n),
                                             f, n),
                     InitialContents([i \in 1..cap |-> i], f, n),
                     "constructor")

PushBack ==
  /\ pc = "buffer"
  /\ ~cb_full(cb.b)
  /\ \E x \in CbVals :
       cb' = Called(push_back(cb.b, x), Append(cb.ref, x), "push_back")
  /\ UNCHANGED <<pc, svars, vi, fn>>

PushFront ==
  /\ pc = "buffer"
  /\ ~cb_full(cb.b)
  /\ \E x \in CbVals :
       cb' = Called(push_front(cb.b, x), <<x>> \o cb.ref, "push_front")
  /\ UNCHANGED <<pc, svars, vi, fn>>

PopFront ==
  /\ pc = "buffer"
  /\ ~empty(cb.b)
  /\ cb' = Called(pop_front(cb.b), Tail(cb.ref), "pop_front")
  /\ UNCHANGED <<pc, svars, vi, fn>>

PopFrontN ==
  /\ pc = "buffer"
  /\ \E n \in 0..cb.b.size :
       cb' = Called(pop_front_n(cb.b, n),
                    SubSeq(cb.ref, n + 1, Len(cb.ref)), "pop_front_n")
  /\ UNCHANGED <<pc, svars, vi, fn>>

PopBack ==
  /\ pc = "buffer"
  /\ ~empty(cb.b)
  /\ cb' = Called(pop_back(cb.b), SubSeq(cb.ref, 1, Len(cb.ref) - 1),
                  "pop_back")
  /\ UNCHANGED <<pc, svars, vi, fn>>

PopBackN ==
  /\ pc = "buffer"
  /\ \E n \in 0..cb.b.size :
       cb' = Called(pop_back_n(cb.b, n),
                    SubSeq(cb.ref, 1, Len(cb.ref) - n), "pop_back_n")
  /\ UNCHANGED <<pc, svars, vi, fn>>

Clear ==
  /\ pc = "buffer"
  /\ cb' = Called(clear(cb.b), <<>>, "clear")
  /\ UNCHANGED <<pc, svars, vi, fn>>

\* data of at most d elements
CbData(d) == UNION {[1..k -> CbVals] : k \in 0..d}

CopyInBack ==
  /\ pc = "buffer"
  /\ cb.b.trivial
  /\ \E data \in CbData(remaining(cb.b)) :
       cb' = [Called(copy_in_back(cb.b, data), cb.ref \o data,
                     "copy_in_back") EXCEPT !.arg = data]
  /\ UNCHANGED <<pc, svars, vi, fn>>

CopyInFront ==
  /\ pc = "buffer"
  /\ cb.b.trivial
  /\ \E data \in CbData(remaining(cb.b)) :
       cb' = [Called(copy_in_front(cb.b, data), data \o cb.ref,
                     "copy_in_front") EXCEPT !.arg = data]
  /\ UNCHANGED <<pc, svars, vi, fn>>

CopyOutFront ==
  /\ pc = "buffer"
  /\ cb.b.trivial
  /\ \E n \in 0..cb.b.size :
       \E r \in {copy_out_front(cb.b, n)} :
         cb' = [Called(r.b, SubSeq(cb.ref, n + 1, Len(cb.ref)),
                       "copy_out_front") EXCEPT !.arg = <<n>>,
                                                !.out = r.data]
  /\ UNCHANGED <<pc, svars, vi, fn>>

CopyOutBack ==
  /\ pc = "buffer"
  /\ cb.b.trivial
  /\ \E n \in 0..cb.b.size :
       \E r \in {copy_out_back(cb.b, n)} :
         cb' = [Called(r.b, SubSeq(cb.ref, 1, Len(cb.ref) - n),
                       "copy_out_back") EXCEPT !.arg = <<n>>,
                                               !.out = r.data]
  /\ UNCHANGED <<pc, svars, vi, fn>>

\* emplace_back or push_back of an element whose constructor throws
PushBackThrows ==
  /\ pc = "buffer"
  /\ ~cb.b.trivial
  /\ ~cb_full(cb.b)
  /\ cb' = Called(construct_throws(cb.b, cb.b.last), cb.ref, "push_back throws")
  /\ UNCHANGED <<pc, svars, vi, fn>>

\* emplace_front or push_front of an element whose constructor throws
PushFrontThrows ==
  /\ pc = "buffer"
  /\ ~cb.b.trivial
  /\ ~cb_full(cb.b)
  /\ cb' = Called(construct_throws(cb.b, prev(cb.b, cb.b.first)), cb.ref,
                  "push_front throws")
  /\ UNCHANGED <<pc, svars, vi, fn>>

Begin ==
  /\ pc = "buffer"
  /\ cb' = [cb EXCEPT !.op = "begin", !.arg = <<>>, !.out = <<>>,
                      !.it = [ptr |-> cb_begin(cb.b), seen |-> <<>>,
                              dir |-> "forward"]]
  /\ UNCHANGED <<pc, svars, vi, fn>>

End ==
  /\ pc = "buffer"
  /\ cb' = [cb EXCEPT !.op = "end", !.arg = <<>>, !.out = <<>>,
                      !.it = [ptr |-> cb_end(cb.b), seen |-> <<>>,
                              dir |-> "backward"]]
  /\ UNCHANGED <<pc, svars, vi, fn>>

\* *it, then ++it
Increment ==
  /\ pc = "buffer"
  /\ cb.it.dir = "forward"
  /\ iter_index(cb.b, cb.it.ptr) < cb.b.size
  /\ cb' = [cb EXCEPT !.op = "++",
                      !.it.seen = Append(@, deref(cb.b, cb.it.ptr)),
                      !.it.ptr = iter_inc(cb.b, @)]
  /\ UNCHANGED <<pc, svars, vi, fn>>

\* --it, then *it
Decrement ==
  /\ pc = "buffer"
  /\ cb.it.dir = "backward"
  /\ iter_index(cb.b, cb.it.ptr) > 0
  /\ cb' = [cb EXCEPT !.op = "--",
                      !.it.seen = Append(@, deref(cb.b, iter_dec(cb.b, cb.it.ptr))),
                      !.it.ptr = iter_dec(cb.b, @)]
  /\ UNCHANGED <<pc, svars, vi, fn>>

\* the adapter goes out of scope: it has no destructor of its own
Destructor ==
  /\ pc = "buffer"
  /\ pc' = "destroyed"
  /\ cb' = [cb EXCEPT !.op = "destructor", !.arg = <<>>, !.out = <<>>,
                      !.it = NoIterator]
  /\ UNCHANGED <<svars, vi, fn>>

NextCb ==
  PushBack \/ PushFront \/ PopFront \/ PopFrontN \/ PopBack \/ PopBackN
    \/ Clear \/ CopyInBack \/ CopyInFront \/ CopyOutFront \/ CopyOutBack
    \/ PushBackThrows \/ PushFrontThrows \/ Begin \/ End \/ Increment
    \/ Decrement \/ Destructor

SpecCb == InitCb /\ [][NextCb]_vars

\* C15: constructed over C slots with first_index f < C and item_count
\* n <= C, after any sequence of push_back, push_front, pop_back, pop_front
\* (single and counted) and clear within the asserted preconditions, size(),
\* empty(), full(), remaining(), front(), back() and operator[] agree with a
\* reference deque on which the same operations were applied.
C15_Deque ==
  /\ cb.b.size = Len(cb.ref)
  /\ empty(cb.b) <=> cb.ref = <<>>
  /\ cb_full(cb.b) <=> Len(cb.ref) = capacity(cb.b)
  /\ remaining(cb.b) = capacity(cb.b) - Len(cb.ref)
  /\ cb.ref # <<>> =>
       /\ front(cb.b) = cb.ref[1]
       /\ back(cb.b) = cb.ref[Len(cb.ref)]
  /\ \A i \in 0..(Len(cb.ref) - 1) : at(cb.b, i) = cb.ref[i + 1]

\* a full buffer over three slots whose contents wrap around the end of the
\* memory, holding an initial element between two pushed ones
C15_Witness ==
  /\ capacity(cb.b) = 3 /\ cb_full(cb.b)
  /\ cb.b.first = 2
  /\ cb.ref = <<8, 1, 9>>
  /\ cb.op = "push_back"

\* the elements of the buffer, front first
Contents(b) == [k \in 1..b.size |-> at(b, k - 1)]

C16_Step ==
  /\ cb'.op = "copy_in_back" =>
       /\ Contents(cb'.b) = Contents(cb.b) \o cb'.arg
       /\ cb'.b.size = cb.b.size + Len(cb'.arg)
  /\ cb'.op = "copy_in_front" =>
       /\ Contents(cb'.b) = cb'.arg \o Contents(cb.b)
       /\ cb'.b.size = cb.b.size + Len(cb'.arg)
  /\ cb'.op = "copy_out_front" =>
       /\ cb'.out = SubSeq(Contents(cb.b), 1, cb'.arg[1])
       /\ Contents(cb'.b) = SubSeq(Contents(cb.b), cb'.arg[1] + 1, cb.b.size)
       /\ cb'.b.size = cb.b.size - cb'.arg[1]
  /\ cb'.op = "copy_out_back" =>
       /\ cb'.out = SubSeq(Contents(cb.b), cb.b.size - cb'.arg[1] + 1,
                           cb.b.size)
       /\ Contents(cb'.b) = SubSeq(Contents(cb.b), 1, cb.b.size - cb'.arg[1])
       /\ cb'.b.size = cb.b.size - cb'.arg[1]
  /\ /\ cb'.op \in {"copy_in_back", "copy_in_front", "copy_out_front",
                    "copy_out_back"}
     /\ cb'.arg \in {<<>>, <<0>>}
     => cb'.b = cb.b

\* C16: copy_in_back appends the n elements of data in order, copy_in_front
\* puts them in front with data[0] the new front, copy_out_front and
\* copy_out_back remove the n elements at the front or at the back and store
\* them to out in front-to-back order, also where the range wraps around the
\* end of the memory; the size changes by exactly n, and n = 0 changes nothing.
C16_BulkCopies == [][C16_Step]_vars

\* two elements copied in at the front of a buffer of three slots, the first
\* to the last slot and the second to the first slot of the memory
C16_Witness ==
  /\ cb.op = "copy_in_front"
  /\ cb.arg = <<8, 9>>
  /\ capacity(cb.b) = 3 /\ cb.b.first = 2
  /\ cb.b.mem[3] = 8 /\ cb.b.mem[1] = 9
  /\ cb.b.size = 3

C17_Step ==
  cb'.op \in {"push_back throws", "push_front throws"} =>
    /\ cb'.b.first = cb.b.first /\ cb'.b.last = cb.b.last
    /\ cb'.b.size = cb.b.size
    /\ Contents(cb'.b) = Contents(cb.b)
    /\ cb'.b.live = cb.b.live /\ cb'.b.twice = cb.b.twice

\* C17: if constructing the element throws in emplace_back, emplace_front,
\* push_back or push_front, the buffer is exactly as before the call: the
\* same size, the same elements, the same positions and the same objects.
C17_ExceptionGuarantee == [][C17_Step]_vars

\* a push_front threw on a wrapped-around buffer of two elements
C17_Witness ==
  /\ cb.op = "push_front throws"
  /\ capacity(cb.b) = 3 /\ cb.b.size = 2 /\ cb.b.first = 2
  /\ cb.b.mem[2] = Junk

Reverse(q) == [k \in 1..Len(q) |-> q[Len(q) + 1 - k]]

\* C18: incrementing from begin() visits the elements front to back and is
\* end() after exactly size() steps; end() - begin() = size(); begin() ==
\* end() exactly when the buffer is empty; decrementing from end() visits
\* the elements in reverse order.
C18_Iterators ==
  pc = "buffer" =>
    /\ iter_diff(cb.b, cb_end(cb.b), cb_begin(cb.b)) = cb.b.size
    /\ iter_eq(cb_begin(cb.b), cb_end(cb.b)) <=> empty(cb.b)
    /\ cb.it.dir = "forward" =>
         /\ cb.it.seen = SubSeq(cb.ref, 1, Len(cb.it.seen))
         /\ iter_eq(cb.it.ptr, cb_end(cb.b)) <=> Len(cb.it.seen) = cb.b.size
    /\ cb.it.dir = "backward" =>
         /\ Len(cb.it.seen) <= cb.b.size
         /\ cb.it.seen = SubSeq(Reverse(cb.ref), 1, Len(cb.it.seen))
         /\ iter_index(cb.b, cb.it.ptr) = cb.b.size - Len(cb.it.seen)

\* the three elements of a full buffer that wraps around were visited from
\* begin() and the iterator is end()
C18_Witness ==
  /\ cb.it.dir = "forward"
  /\ capacity(cb.b) = 3 /\ cb_full(cb.b) /\ cb.b.first = 2
  /\ Len(cb.it.seen) = 3
  /\ cb.it.ptr = cb_end(cb.b)

\* the slots of the elements
Slots(b) == {add(b, b.first, k) : k \in 0..(b.size - 1)}

C19_Live ==
  ~cb.b.trivial =>
    /\ cb.b.live = Slots(cb.b)
    /\ Cardinality(cb.b.live) = cb.b.size
    /\ ~cb.b.twice
    /\ cb.op = "constructor" =>
         cb.b.live = ValidInstances(FALSE, capacity(cb.b), cb.b.first,
                                    cb.b.size)

C19_Step ==
  ~cb.b.trivial =>
    /\ cb'.op = "push_back" =>
         cb.b.last \notin cb.b.live /\ cb'.b.live = cb.b.live \cup {cb.b.last}
    /\ cb'.op = "push_front" =>
         /\ prev(cb.b, cb.b.first) \notin cb.b.live
         /\ cb'.b.live = cb.b.live \cup {prev(cb.b, cb.b.first)}
    /\ cb'.op = "pop_front" =>
         cb.b.first \in cb.b.live /\ cb'.b.live = cb.b.live \ {cb.b.first}
    /\ cb'.op = "pop_back" =>
         /\ dec(cb.b, cb.b.last) \in cb.b.live
         /\ cb'.b.live = cb.b.live \ {dec(cb.b, cb.b.last)}
    /\ cb'.op = "pop_front_n" =>
         cb'.b.live = cb.b.live \ {s \in Slots(cb.b) : index(cb.b, s) < cb.b.size - cb'.b.size}
    /\ cb'.op = "pop_back_n" =>
         cb'.b.live = cb.b.live \ {s \in Slots(cb.b) : index(cb.b, s) >= cb'.b.size}
    /\ cb'.op = "clear" => cb'.b.live = {}
    /\ cb'.op = "destructor" => cb'.b = cb.b

\* C19: for an element type that is not trivial, each push constructs
\* exactly one object, each pop destroys exactly the removed objects, clear
\* destroys each contained object once, the live objects are the size()
\* elements, and constructing the adapter over a memory that is not empty
\* and destroying the adapter construct and destroy nothing.
C19_Lifetime == []C19_Live /\ [][C19_Step]_vars

\* a counted pop from the front destroyed the objects in the last two slots
\* of a memory of three and left the one pushed to the first slot
C19_Witness ==
  /\ ~cb.b.trivial
  /\ cb.op = "pop_front_n"
  /\ cb.b.mem = <<9, 2, 8>>
  /\ cb.b.first = 0 /\ cb.b.size = 1
  /\ cb.b.live = {0}

----------------------------------------------------------------------------
(* embedded::function.  A wrapper is [alive, vtbl, obj]: whether the       *)
(* function object exists, whether vtbl_ points to the empty or to a typed *)
(* table, and the callable object last constructed in storage_ (0: none).  *)
(* objs lists every callable object ever constructed in a storage, with    *)
(* the value that identifies what it does when called, whether it is       *)
(* live, destroyed or destroyed twice, and whether it was moved from.      *)

\* function objects of a run, and callable objects constructed in a run
MaxFn == 2
MaxObjs == 3

\* the slot of a temporary function of an assignment
Tmp == 0

Functions == 1..MaxFn

CallableVals == {1, 2}

\* the value of a callable read after its lifetime
Indeterminate == 0

\* calls counted by one callable
MaxCount == 3

\* no function object, its storage holds no callable
NoFunction == [alive |-> FALSE, vtbl |-> "empty", obj |-> 0]

\* static_cast<T*>(p)->~T()
destroy_callable(w, o) ==
  [w EXCEPT !.objs[o].state = IF @ = "live" THEN "destroyed" ELSE "twice"]

\* ::new (dst) T{std::move(*static_cast<T*>(src))}
move_callable(w, dst, src) ==
  LET so == w.f[src].obj
      moved == [val |-> IF w.objs[so].state = "live" THEN w.objs[so].val
                        ELSE Indeterminate,
                state |-> "live", moved |-> FALSE]
      objs2 == Append([w.objs EXCEPT ![so].moved = TRUE], moved)
  IN [f |-> [w.f EXCEPT ![dst].obj = Len(objs2)], objs |-> objs2]

\* vtbl_->proc(op, dst, src): empty_proc does nothing; vt_proc<T> moves and
\* falls through to the destroy case, or destroys
vt_proc(w, vt, op, dst, src) ==
  IF vt = "empty" THEN w
  ELSE IF op = "move"
       THEN \* case oper::move, then the fallthrough into case oper::destroy
            LET w2 == move_callable(w, dst, src)
            IN destroy_callable(w2, w2.f[dst].obj)
       ELSE destroy_callable(w, w.f[dst].obj)

\* function(), function(nullptr)
function_default(w, i) ==
  [w EXCEPT !.f[i].alive = TRUE, !.f[i].vtbl = "empty"]

\* function(T&& fun)
function_from(w, i, c) ==
  LET objs2 == Append(w.objs, [val |-> c, state |-> "live", moved |-> FALSE])
  IN [f |-> [w.f EXCEPT ![i] = [alive |-> TRUE, vtbl |-> "typed",
                                obj |-> Len(objs2)]],
      objs |-> objs2]

\* function(function&& other)
function_move(w, i, other) ==
  LET w1 == [w EXCEPT !.f[i].alive = TRUE, !.f[i].vtbl = w.f[other].vtbl]
      w2 == [w1 EXCEPT !.f[other].vtbl = "empty"]
  IN vt_proc(w2, w2.f[i].vtbl, "move", i, other)

\* ~function()
function_destroy(w, i) ==
  [vt_proc(w, w.f[i].vtbl, "destroy", i, i) EXCEPT !.f[i].alive = FALSE]

\* operator=(function&& other)
move_assign(w, i, other) == function_move(function_destroy(w, i), i, other)

\* operator=(std::nullptr_t): *this = function()
assign_nullptr(w, i) ==
  [function_destroy(move_assign(function_default(w, Tmp), i, Tmp), Tmp)
     EXCEPT !.f[Tmp] = NoFunction]

\* f = callable: *this = function(callable)
assign_callable(w, i, c) ==
  [function_destroy(move_assign(function_from(w, Tmp, c), i, Tmp), Tmp)
     EXCEPT !.f[Tmp] = NoFunction]

\* explicit operator bool(): vtbl_ != &empty_vtbl::value
operator_bool(w, i) == w.f[i].vtbl # "empty"

\* empty_call: throw std::bad_function_call() or std::terminate()
empty_call == [kind |-> "bad_function_call", val |-> 0]

\* vt_call<T>: (*static_cast<T*>(s))(args...); the outcomes of calling an
\* object after its lifetime are any return value and a crash
vt_call(w, i) ==
  LET o == w.objs[w.f[i].obj]
  IN IF o.state = "live" /\ o.val # Indeterminate
     THEN {[kind |-> "returned", val |-> o.val]}
     ELSE {[kind |-> "returned", val |-> v] : v \in CallableVals}
            \cup {[kind |-> "crash", val |-> 0]}

\* operator()(args...): vtbl_->call(storage_, args...)
invoke(w, i) ==
  IF w.f[i].vtbl = "empty" THEN {empty_call} ELSE vt_call(w, i)

\* the callable of the tests counts its calls, [num]() mutable { return
\* num++; }: a call that returns num leaves num + 1 in the callable
called_callable(w, i, r) ==
  IF r.kind = "returned" /\ w.f[i].vtbl # "empty"
       /\ w.objs[w.f[i].obj].state = "live"
  THEN [w EXCEPT !.objs[w.f[i].obj].val = r.val + 1]
  ELSE w

----------------------------------------------------------------------------
(* Specification of function: function objects are constructed, moved,     *)
(* assigned, invoked and destroyed in any order.  fn = [f, objs, op, who,   *)
(* res]: the wrappers, the callable objects, the call made last, the        *)
(* functions it was made on, and the outcome of an invocation.              *)

NoResult == [kind |-> "none", val |-> 0]

FnCalled(w, op, who) ==
  [f |-> w.f, objs |-> w.objs, op |-> op, who |-> who, res |-> NoResult]

World == [f |-> fn.f, objs |-> fn.objs]

InitFunction ==
  /\ pc = "function"
  /\ SignalIdle
  /\ vi = <<>> /\ cb = <<>>
  /\ fn = FnCalled([f |-> [i \in Functions \cup {Tmp} |-> NoFunction],
                    objs |-> <<>>], "none", <<>>)

FunctionDefault ==
  /\ pc = "function"
  /\ \E i \in Functions :
       /\ ~fn.f[i].alive
       /\ \E op \in {"function()", "function(nullptr)"} :
            fn' = FnCalled(function_default(World, i), op, <<i>>)
  /\ UNCHANGED <<pc, svars, vi, cb>>

FunctionFrom ==
  /\ pc = "function"
  /\ Len(fn.objs) < MaxObjs
  /\ \E i \in Functions, c \in CallableVals :
       /\ ~fn.f[i].alive
       /\ fn' = FnCalled(function_from(World, i, c), "function(callable)",
                         <<i>>)
  /\ UNCHANGED <<pc, svars, vi, cb>>

FunctionMove ==
  /\ pc = "function"
  /\ \E i \in Functions, other \in Functions :
       /\ ~fn.f[i].alive /\ fn.f[other].alive
       /\ operator_bool(World, other) => Len(fn.objs) < MaxObjs
       /\ fn' = FnCalled(function_move(World, i, other), "function(function&&)",
                         <<i, other>>)
  /\ UNCHANGED <<pc, svars, vi, cb>>

MoveAssign ==
  /\ pc = "function"
  /\ \E i \in Functions, other \in Functions :
       /\ fn.f[i].alive /\ fn.f[other].alive
       /\ operator_bool(World, other) => Len(fn.objs) < MaxObjs
       /\ fn' = FnCalled(move_assign(World, i, other), "= function&&",
                         <<i, other>>)
  /\ UNCHANGED <<pc, svars, vi, cb>>

AssignNullptr ==
  /\ pc = "function"
  /\ \E i \in Functions :
       /\ fn.f[i].alive
       /\ fn' = FnCalled(assign_nullptr(World, i), "= nullptr", <<i>>)
  /\ UNCHANGED <<pc, svars, vi, cb>>

AssignCallable ==
  /\ pc = "function"
  /\ Len(fn.objs) + 1 < MaxObjs
  /\ \E i \in Functions, c \in CallableVals :
       /\ fn.f[i].alive
       /\ fn' = FnCalled(assign_callable(World, i, c), "= callable", <<i>>)
  /\ UNCHANGED <<pc, svars, vi, cb>>

Invoke ==
  /\ pc = "function"
  /\ \E i \in Functions :
       /\ fn.f[i].alive
       /\ \E r \in invoke(World, i) :
            /\ r.kind = "returned" => r.val < MaxCount
            /\ fn' = [FnCalled(called_callable(World, i, r), "()", <<i>>)
                       EXCEPT !.res = r]
  /\ UNCHANGED <<pc, svars, vi, cb>>

\* the function object goes out of scope, and its storage with it
FunctionDestroy ==
  /\ pc = "function"
  /\ \E i \in Functions :
       /\ fn.f[i].alive
       /\ fn' = FnCalled([function_destroy(World, i) EXCEPT !.f[i] = NoFunction],
                         "~function", <<i>>)
  /\ UNCHANGED <<pc, svars, vi, cb>>

NextFunction ==
  FunctionDefault \/ FunctionFrom \/ FunctionMove \/ MoveAssign
    \/ AssignNullptr \/ AssignCallable \/ Invoke \/ FunctionDestroy

SpecFunction == InitFunction /\ [][NextFunction]_vars

\* function i holds a callable: the object in its storage is in its lifetime
\* and was not moved from
Holds(i) ==
  /\ fn.f[i].obj # 0
  /\ fn.objs[fn.f[i].obj].state = "live"
  /\ ~fn.objs[fn.f[i].obj].moved

\* a default-constructed function, one constructed from or assigned nullptr
\* and a moved-from function convert to false, and invoking a function that
\* converts to false raises std::bad_function_call
EmptyFunctions ==
  /\ fn.op \in {"function()", "function(nullptr)", "= nullptr"} =>
       ~operator_bool(World, fn.who[1])
  /\ fn.op \in {"function(function&&)", "= function&&"} =>
       ~operator_bool(World, fn.who[2])
  /\ fn.op = "()" /\ ~operator_bool(World, fn.who[1]) => fn.res = empty_call
  /\ \A i \in Functions :
       fn.f[i].alive /\ ~operator_bool(World, i) => ~Holds(i)

\* C20: a function converts to true exactly when it holds a callable; a
\* default-constructed function, one constructed from or assigned nullptr
\* and a moved-from function convert to false, and invoking such an empty
\* function raises std::bad_function_call instead of calling anything.
C20_BoolIffCallable ==
  /\ EmptyFunctions
  /\ \A i \in Functions :
       fn.f[i].alive => (operator_bool(World, i) <=> Holds(i))

C21_Step ==
  /\ fn'.op \in {"function(function&&)", "= function&&"}
  /\ fn'.who[1] # fn'.who[2]
  /\ Holds(fn'.who[2])
  => /\ ~operator_bool(World', fn'.who[2])
     /\ invoke(World', fn'.who[1])
          = {[kind |-> "returned", val |-> fn.objs[fn.f[fn'.who[2]].obj].val]}
     /\ fn'.op = "= function&&" /\ Holds(fn'.who[1]) =>
          fn.objs[fn.f[fn'.who[1]].obj].state # "live"
            \/ fn'.f[fn'.who[1]].obj # fn.f[fn'.who[1]].obj

\* C21: after a function was move-constructed or move-assigned from another
\* function that held a callable, invoking the destination calls that
\* callable with the state it had at the time of the move, the source is
\* empty, and the callable the destination of a move-assignment held before
\* is no longer invocable through it.
C21_MoveTransfers == [][C21_Step]_vars

\* C28: every callable object placed in a wrapper's storage is destroyed
\* exactly once and never while a non-empty wrapper still holds it: no
\* callable is destroyed twice, none is live without a non-empty function
\* that holds it (a leak), and none is invoked after its destruction.
C28_DestroyedOnce ==
  pc = "function" =>
    /\ \A o \in 1..Len(fn.objs) :
         /\ fn.objs[o].state # "twice"
         /\ fn.objs[o].state = "live" =>
              \E i \in Functions :
                fn.f[i].alive /\ operator_bool(World, i) /\ fn.f[i].obj = o
    /\ \A i \in Functions :
         fn.f[i].alive /\ operator_bool(World, i) =>
           fn.objs[fn.f[i].obj].state = "live"
    /\ fn.op = "()" => fn.res.kind # "crash"

----------------------------------------------------------------------------
(* Further properties of the SOS decomposition *)

\* |1 - |a|^2|
UnitCircleDistance(a) == IAbs(1 - (a.re * a.re + a.im * a.im))

\* the lowest index among those of the entries nearest to the unit circle
FirstNearest(ps) ==
  CHOOSE i \in 1..Len(ps) :
    \A j \in 1..Len(ps) :
      /\ UnitCircleDistance(ps[i]) <= UnitCircleDistance(ps[j])
      /\ j < i => UnitCircleDistance(ps[j]) > UnitCircleDistance(ps[i])

\* a level of the recursion is executed by this step
Level == pc = "sos" /\ Stages' = Stages - 1

C22_Last ==
  pc = "done" =>
    sel[Len(sel)].poles[1] = even(zpk).poles[FirstNearest(even(zpk).poles)]

C22_Step ==
  Level =>
    /\ sel'[1].poles[1] = p[FirstNearest(p)]
    /\ Tail(sel') = sel /\ Tail(sos') = sos
    /\ sos'[1] = sos_section(sel'[1].zeros, sel'[1].poles, sel'[1].gain)
    /\ Len(sos') = sos_count(Order) - Stages'

\* C22: each level selects first the pole nearest to the unit circle among
\* the poles that remain, the lowest index winning a tie, and its section is
\* put in front of the sections of the levels before it: the pole selected
\* first among all 2m input poles is in the last section, and the pair of
\* step k is at output index m - k.
C22_ReverseOrder == []C22_Last /\ [][C22_Step]_vars

\* the poles i and -i tie; i, at the lower index, was selected first and
\* is in the last of the two sections
C22_Witness ==
  /\ pc = "done"
  /\ zpk.poles = <<C(0, 0), C(0, 1), C(0, -1)>>
  /\ Len(sel) = 2
  /\ sel[2].poles = <<C(0, 1), C(0, -1)>>
  /\ sel[1].poles = <<C(0, 0), C(0, 0)>>

\* the poles left when the first pole of the level has been taken out
Others(ps) == swappop(ps, FirstNearest(ps))

RealEntries(ps) == {i \in 1..Len(ps) : is_real(ps[i])}

C23_Step ==
  (Level /\ ZpkInvariant(zpk)) =>
    LET p1 == sel'[1].poles[1]
        p2 == sel'[1].poles[2]
    IN /\ (is_real(p1) /\ RealEntries(Others(p)) # {}) =>
            /\ is_real(p2)
            /\ \A j \in RealEntries(Others(p)) :
                 UnitCircleDistance(p2) <= UnitCircleDistance(Others(p)[j])
       /\ (~is_real(p1) /\ ~sel'[1].special) => p2 = conj(p1)

\* C23: when the pole selected as nearest to the unit circle is real and
\* another real pole remains, its partner is a real pole, the remaining real
\* pole nearest to the unit circle, whatever the order of the remaining
\* poles and however close a remaining complex pole is; when the selected
\* pole is complex its partner is its conjugate.
C23_RealPartner == [][C23_Step]_vars

ZerosInvariant == ConjugatePairs(even(zpk).zeros)

\* C30: when the zeros of the input satisfy the conjugate-pair invariant,
\* the zeros that remain satisfy it after every level, the number of real
\* zeros among them is even, and no level takes the branch that pairs a
\* complex pole with the nearest complex zero.
C30_ZerosInvariant ==
  (pc \in {"sos", "done"} /\ ZerosInvariant) =>
    /\ ConjugatePairs(z)
    /\ Cardinality(RealEntries(z)) % 2 = 0
    /\ \A k \in 1..Len(sel) :
         /\ ~sel[k].special
         /\ RealPair(sel[k].zeros)

\* a complex pole was selected at a level where exactly one real pole
\* remained; two real zeros remained, -1 and the padding zero, and the pole
\* was paired with its nearest zero and that zero's conjugate
C30_Witness ==
  /\ pc = "done"
  /\ zpk.zeros = <<C(0, 1), C(-1, 0), C(0, -1)>>
  /\ zpk.poles = <<C(0, 1), C(0, 1), C(0, 1)>>
  /\ Len(sel) = 2
  /\ sel[2].zeros = <<C(0, 1), C(0, -1)>>
  /\ ~sel[2].special

----------------------------------------------------------------------------
(* Further properties of the runtime execution *)

\* instance k of the polynomial design processes a sample in this step
PolyCall(k) ==
  /\ inst[k].kind = "poly"
  /\ Len(inst'[k].in) = Len(inst[k].in) + 1

C24_Step ==
  \A k \in 1..Len(inst) :
    PolyCall(k) =>
      LET n == Len(inst[k].state)
          s == inst[k].state
          t == inst'[k].state
          x == F(inst'[k].in[Len(inst'[k].in)])
          y == inst'[k].out[Len(inst'[k].out)]
      IN /\ y = FAdd(FMul(polyd.b[1], x), s[1])
         /\ Len(t) = n
         /\ \A j \in 0..(n - 2) :
              t[j + 1] = FAdd(FSub(FMul(polyd.b[j + 2], x),
                                   FMul(polyd.a[j + 2], y)), s[j + 2])
         /\ t[n] = FSub(FMul(polyd.b[n + 1], x), FMul(polyd.a[n + 1], y))

\* C24: one call of the order-n polynomial filter with input x returns
\* y = b[0]*x + s[0] and leaves s'[k] = b[k+1]*x - a[k+1]*y + s[k+1] for
\* k in 0..n-2, with s the state before the call, and s'[n-1] = b[n]*x -
\* a[n]*y; for n = 1 only the last rule applies.
C24_PolyRecurrence == [][C24_Step]_vars

\* a polynomial instance of order 3 has processed two samples, the second
\* one from a state that was not zero, and holds a state that is not zero
C24_Witness ==
  /\ Len(inst) >= 3
  /\ Order = 3
  /\ inst[3].kind = "poly"
  /\ inst[3].in = <<1, 1>>
  /\ ~zero_state(inst[3])
  /\ inst[3].state[1] # inst[3].state[2]

----------------------------------------------------------------------------
(* Further properties of the frequency transforms *)

\* the zeros of the result: the transformed zeros of the input in their
\* order, followed by Pn - Zn copies of pad
PaddedZeros(transformed, pad) ==
  /\ Len(tr.out.zeros) = Len(tr.in.poles)
  /\ \A k \in 1..Len(tr.in.zeros) : tr.out.zeros[k] = transformed[k]
  /\ \A k \in (Len(tr.in.zeros) + 1)..Len(tr.in.poles) : tr.out.zeros[k] = pad

\* C25: for a ZPK with Zn <= Pn, highpass_zpk and bilinear_zpk return exactly
\* Pn zeros and Pn poles, the first Zn zeros being the transformed zeros of
\* the input in their order and the remaining Pn - Zn zeros being 0 for the
\* highpass and -1 for the bilinear transform; lowpass_zpk returns Zn zeros
\* and Pn poles.
C25_ZeroPadding ==
  /\ tr.op # "none" => Len(tr.in.zeros) <= Len(tr.in.poles)
  /\ tr.op # "none" => Len(tr.out.poles) = Len(tr.in.poles)
  /\ tr.op = "highpass" =>
       PaddedZeros([k \in 1..Len(tr.in.zeros) |->
                      qdiv(qreal(tr.arg), tr.in.zeros[k])], qreal(QInt(0)))
  /\ tr.op = "bilinear" =>
       PaddedZeros([k \in 1..Len(tr.in.zeros) |->
                      bilinear_zp(tr.arg, tr.in.zeros[k])], qreal(QInt(-1)))
  /\ tr.op = "lowpass" => Len(tr.out.zeros) = Len(tr.in.zeros)

\* the bilinear transform of a ZPK with one zero and two poles: the zero is
\* mapped to a value other than -1 and one zero at -1 follows it
C25_Witness ==
  /\ tr.op = "bilinear"
  /\ Len(tr.in.zeros) = 1 /\ Len(tr.in.poles) = 2
  /\ Len(tr.out.zeros) = 2
  /\ tr.out.zeros[1] = bilinear_zp(tr.arg, tr.in.zeros[1])
  /\ tr.out.zeros[1] # qreal(QInt(-1))
  /\ tr.out.zeros[2] = qreal(QInt(-1))

----------------------------------------------------------------------------
(* Further properties of varint: the zig-zag transform as arithmetic modulo *)
(* 2^w on bit patterns                                                      *)

\* a + b modulo 2^w
bv_add(a, b) ==
  LET carry[i \in 0..Len(a)] ==
        IF i = 0 THEN 0 ELSE (a[i] + b[i] + carry[i - 1]) \div 2
  IN [i \in 1..Len(a) |-> (a[i] + b[i] + carry[i - 1]) % 2]

\* -a modulo 2^w
bv_neg(a) ==
  bv_add([i \in 1..Len(a) |-> 1 - a[i]],
         [i \in 1..Len(a) |-> IF i = 1 THEN 1 ELSE 0])

\* the two's complement pattern of w bits of n, -2^15 < n < 2^16
SignedBits(n, w) == IF n >= 0 THEN BitsOf(n, w) ELSE bv_neg(BitsOf(-n, w))

\* 2v for v >= 0 and -2v - 1 for v < 0, as an unsigned value of the width
ZigZag(v) ==
  IF v[Len(v)] = 0 THEN bv_add(v, v)
  ELSE bv_add(bv_neg(bv_add(v, v)), bv_ones(Len(v)))

ZigZagExamples == {<<0, 0>>, <<-1, 1>>, <<1, 2>>, <<17, 34>>, <<-17, 33>>}

\* C26: zig_zag_encode maps a signed v to 2v for v >= 0 and to -2v - 1 for
\* v < 0, taken as an unsigned value of the same width (0 -> 0, -1 -> 1,
\* 1 -> 2, 17 -> 34, -17 -> 33; the maximum goes to 2^w - 2 and the minimum
\* to 2^w - 1), that is the value a successful encode of a signed value puts
\* into the buffer; zig_zag_decode(zig_zag_encode(v)) = v for every signed v
\* and zig_zag_encode(zig_zag_decode(u)) = u for every unsigned u.
C26_ZigZag ==
  LET w == vi.T.bits
      v == vi.value
  IN /\ pc = "value" =>
          /\ zig_zag_encode(v) = ZigZag(v)
          /\ \A e \in ZigZagExamples :
               v = SignedBits(e[1], w) => zig_zag_encode(v) = BitsOf(e[2], w)
          /\ v = [i \in 1..w |-> IF i = w THEN 0 ELSE 1]
               => zig_zag_encode(v) = [i \in 1..w |-> IF i = 1 THEN 0 ELSE 1]
          /\ v = [i \in 1..w |-> IF i = w THEN 1 ELSE 0]
               => zig_zag_encode(v) = bv_ones(w)
          /\ zig_zag_decode(zig_zag_encode(v)) = v
          /\ zig_zag_encode(zig_zag_decode(v)) = v
     /\ (vi.T.signed /\ pc \in {"encoded", "appended"} /\ vi.ret # 0)
          => decode_unsigned(w, vi.buf, vi.ret).value = ZigZag(v)

\* -17 of int8_t was encoded into the single byte 33
C26_Witness ==
  /\ pc = "encoded"
  /\ vi.T = [bits |-> 8, signed |-> TRUE]
  /\ vi.value = SignedBits(-17, 8)
  /\ vi.ret = 1 /\ vi.buf[1] = 33
  /\ zig_zag_decode(BitsOf(33, 8)) = vi.value

----------------------------------------------------------------------------
(* Further properties of the polynomial design: cmath::poly and             *)
(* cmath::convolve_full                                                     *)

\* the value at x of the polynomial with coefficients c, highest power first
PolyValue(c, x) ==
  LET h[k \in 0..Len(c)] ==
        IF k = 0 THEN C(0, 0) ELSE CAdd(CMul(h[k - 1], x), c[k])
  IN h[Len(c)]

\* the product of (x - root_k) over all roots
RootProduct(roots, x) ==
  LET f[k \in 0..Len(roots)] ==
        IF k = 0 THEN C(1, 0) ELSE CMul(f[k - 1], CSub(x, roots[k]))
  IN f[Len(roots)]

\* more points than a polynomial of the highest degree has coefficients
PolyPoints == {C(n, 0) : n \in 0..(MaxOrder + 2)}

\* the sum over m of a[m] * b[n - m], both indexes in range, from 0
ConvolutionSum(a, b, n) ==
  LET f[m \in 0..Len(a)] ==
        IF m = Len(a) THEN C(0, 0)
        ELSE CAdd(IF n - m >= 0 /\ n - m < Len(b)
                  THEN CMul(a[m + 1], b[n - m + 1]) ELSE C(0, 0),
                  f[m + 1])
  IN f[0]

IsConvolution(c, a, b) ==
  /\ Len(c) = Len(a) + Len(b) - 1
  /\ \A n \in 0..(Len(c) - 1) : c[n + 1] = ConvolutionSum(a, b, n)

\* poly(roots) holds the coefficients of the product of (x - root_k), the
\* leading one first, whatever the order of the roots
IsExpansion(roots) ==
  LET c == poly(roots)
  IN /\ Len(c) = Len(roots) + 1
     /\ c[1] = C(1, 0)
     /\ \A x \in PolyPoints : PolyValue(c, x) = RootProduct(roots, x)
     /\ \A q \in Permutations(1..Len(roots)) :
          poly([k \in 1..Len(roots) |-> roots[q[k]]]) = c
     /\ \A N \in 1..Len(roots) :
          LET a == poly(SubSeq(roots, 1, N - 1))
              b == <<C(1, 0), CNeg(roots[N])>>
          IN /\ poly(SubSeq(roots, 1, N)) = convolve_full(a, b)
             /\ IsConvolution(convolve_full(a, b), a, b)

C27_Step ==
  (polyd = <<>> /\ polyd' # <<>>) =>
    /\ IsExpansion(zpk.zeros) /\ IsExpansion(zpk.poles)
    /\ polyd'.a = lift(real(poly(zpk.poles)))
    /\ polyd'.b = scale(F(zpk.gain), real(poly(zpk.zeros)))
    /\ IsConvolution(convolve_full(poly(zpk.zeros), poly(zpk.poles)),
                     poly(zpk.zeros), poly(zpk.poles))
    /\ convolve_full(<<C(1, 0), C(2, 0), C(3, 0)>>,
                     <<C(0, 0), C(2, 0), C(1, 0)>>)
         = <<C(0, 0), C(2, 0), C(5, 0), C(8, 0), C(3, 0)>>

\* C27: poly(roots) for S roots returns the S + 1 coefficients of the product
\* of (x - root_k) over all roots, highest power first with leading
\* coefficient 1, whatever the order of the roots; it is built from
\* convolve_full, whose result for inputs of sizes S1 and S2 has size
\* S1 + S2 - 1 and element n equal to the sum over m of a[m] * b[n - m], terms
\* with an index out of range counting as 0 ((1, 2, 3) with (0, 2, 1), twice
\* the second vector of the test, gives (0, 2, 5, 8, 3)).
C27_PolyExpansion == [][C27_Step]_vars

\* the polynomial design of the poles i, -i, 1: x^3 - x^2 + x - 1
C27_Witness ==
  /\ polyd # <<>>
  /\ zpk.poles = <<C(0, 1), C(0, -1), C(1, 0)>>
  /\ polyd.a = <<F(1), F(-1), F(1), F(-1)>>

----------------------------------------------------------------------------
(* Specification of the circular buffer over every argument list the       *)
(* constructor accepts: assert(begin <= first), assert(first <= end),      *)
(* assert(size_ <= capacity()).  From there the operations that work on    *)
(* last_ and on prev(first_) only are applied.                             *)

\* first_index with begin <= data + first_index <= end
AcceptedFirstIndexes(cap) == 0..cap

InitCbAccepted ==
  /\ pc = "buffer"
  /\ SignalIdle
  /\ vi = <<>> /\ fn = <<>>
  /\ \E trivial \in BOOLEAN, cap \in 1..MaxCap :
       \E f \in AcceptedFirstIndexes(cap), n \in 0..cap :
         cb = Called(circular_buffer_adapter(trivial, [i \in 1..cap |-> i],
                                             ValidInstances(trivial, cap, f, n),
                                             f, n),
                     InitialContents([i \in 1..cap |-> i], f, n),
                     "constructor")

NextCbAccepted == PushBack \/ PushFront \/ PopBack \/ PopBackN

SpecCbAccepted == InitCbAccepted /\ [][NextCbAccepted]_vars

\* C29: for an adapter over C >= 1 slots constructed with any arguments its
\* constructor assertions accept, and after any sequence of operations within
\* their asserted preconditions, the front and the back position lie inside
\* the managed memory (begin <= first < end, begin <= last < end), size <= C,
\* and the back position is the front position advanced by size modulo C.
C29_Positions ==
  /\ 0 <= cb.b.first /\ cb.b.first < capacity(cb.b)
  /\ 0 <= cb.b.last /\ cb.b.last < capacity(cb.b)
  /\ cb.b.size <= capacity(cb.b)
  /\ cb.b.last = (cb.b.first + cb.b.size) % capacity(cb.b)

====
